---- MODULE Spec2Model ----
(***************************************************************************)
(* Face-Tracker: a collection of browser scripts that move an on-screen    *)
(* cursor from webcam face landmarks (TensorFlow FaceMesh) and an optional *)
(* WebGazer gaze stream, and fire a "click" (flash + 444 Hz beep) on a    *)
(* blink or mouth-open gesture.  The repository holds 22 scripts (several  *)
(* files are concatenations of scripts); the model loads one of them       *)
(* (variable `variant`) and runs its render loop.                          *)
(*                                                                         *)
(* Numbers.  JavaScript numbers are IEEE doubles.  They are modelled as    *)
(* extended rationals <<n, d>> in lowest terms with d >= 0:                *)
(*   d > 0           the rational n/d                                      *)
(*   <<1,0>>,<<-1,0>> +Infinity, -Infinity (x/0 for x # 0)                 *)
(*   <<0,0>>         NaN (0/0, Infinity - Infinity, ...)                   *)
(* so arithmetic is exact (no rounding) except in the smoothing update,    *)
(* which rounds its result to the grid 1/PosGrid (see Lerp).               *)
(* `undefined` and `null` are the empty tuple <<>>.                        *)
(***************************************************************************)
EXTENDS Integers, Sequences, FiniteSets, TLC

(***************************************************************************)
(* Extended rational arithmetic                                            *)
(***************************************************************************)
IAbs(n) == IF n < 0 THEN -n ELSE n

ISgn(n) == IF n < 0 THEN -1 ELSE IF n > 0 THEN 1 ELSE 0

RECURSIVE GCD(_, _)
GCD(a, b) == IF b = 0 THEN a ELSE GCD(b, a % b)

Norm(n, d) ==
  IF d = 0 THEN <<ISgn(n), 0>>
  ELSE LET g == GCD(IAbs(n), IAbs(d))
           s == IF d < 0 THEN -1 ELSE 1
       IN  <<(s * n) \div g, (s * d) \div g>>

R(n) == <<n, 1>>

NaN == <<0, 0>>

PosInf == <<1, 0>>

Undefined == <<>>

IsNum(a) == Len(a) = 2

IsNaN(a) == a[1] = 0 /\ a[2] = 0

Finite(a) == a[2] # 0

Add(a, b) ==
  IF IsNaN(a) \/ IsNaN(b) THEN NaN
  ELSE IF a[2] = 0 /\ b[2] = 0 THEN (IF a[1] = b[1] THEN a ELSE NaN)
  ELSE Norm(a[1] * b[2] + b[1] * a[2], a[2] * b[2])

Neg(a) == <<-a[1], a[2]>>

Sub(a, b) == Add(a, Neg(b))

Mul(a, b) == Norm(a[1] * b[1], a[2] * b[2])

Inv(a) ==
  IF a[2] = 0 THEN (IF a[1] = 0 THEN NaN ELSE R(0))
  ELSE IF a[1] = 0 THEN PosInf
  ELSE Norm(a[2], a[1])

Div(a, b) == Mul(a, Inv(b))

\* a < b ; any comparison with NaN is false
Lt(a, b) ==
  IF IsNaN(a) \/ IsNaN(b) THEN FALSE
  ELSE IF a[2] = 0 /\ b[2] = 0 THEN a[1] < b[1]
  ELSE a[1] * b[2] < b[1] * a[2]

Gt(a, b) == Lt(b, a)

Le(a, b) == ~(IsNaN(a) \/ IsNaN(b)) /\ ~Lt(b, a)

Ge(a, b) == Le(b, a)

\* Math.abs, Math.max, Math.min
Abs(a) == <<IAbs(a[1]), a[2]>>

Max(a, b) == IF IsNaN(a) \/ IsNaN(b) THEN NaN ELSE IF Lt(a, b) THEN b ELSE a

Min(a, b) == IF IsNaN(a) \/ IsNaN(b) THEN NaN ELSE IF Lt(b, a) THEN b ELSE a

\* a rational rounded to the nearest multiple of 1/g (ties away from zero)
RoundTo(a, g) ==
  IF a[2] = 0 THEN a
  ELSE LET m == IAbs(a[1]) * g
           q == (2 * m + a[2]) \div (2 * a[2])
       IN  Norm(ISgn(a[1]) * q, g)

\* samples.reduce((a, b) => a + b, 0); the numbers are exact, so the sum is
\* taken by halves
RECURSIVE SumSeq(_)
SumSeq(q) ==
  IF q = <<>> THEN R(0)
  ELSE IF Len(q) = 1 THEN q[1]
  ELSE LET h == Len(q) \div 2
       IN  Add(SumSeq(SubSeq(q, 1, h)), SumSeq(SubSeq(q, h + 1, Len(q))))

IMin(a, b) == IF a < b THEN a ELSE b

(***************************************************************************)
(* The landmark source.  estimateFaces resolves to a list of faces; only   *)
(* the first is used.  A result is a record                                *)
(*   faces  0 or 1: the length of the list                                 *)
(*   mesh   whether faces[0].scaledMesh is defined                         *)
(*   len    scaledMesh.length (478 with iris landmarks, 468 without)       *)
(*   holes  indices below len whose entry is undefined                     *)
(*   ann    whether faces[0].annotations is defined (eyelid groups)        *)
(*   annEye whether annotations.leftEye / rightEye are defined             *)
(*   g      the face geometry the landmark coordinates derive from:        *)
(*          nose <<x,y>>, fw, fh face width and height, iris <<x,y>> the   *)
(*          centre of both iris clusters, eye / mouth the vertical eyelid  *)
(*          and lip gaps                                                   *)
(*   pts    the coordinates of the landmarks the scripts read (every other *)
(*          landmark sits on the nose)                                     *)
(*   notes  the coordinates of the annotation members the scripts read     *)
(***************************************************************************)
Pt(x, y) == <<x, y>>

\* the landmarks the scripts read
LandmarkIdx ==
  {1, 234, 454, 10, 152, 33, 263, 13, 82, 312, 14, 87, 317, 17, 18,
   159, 160, 161, 246, 145, 144, 153, 154, 386, 385, 384, 398,
   374, 373, 380, 381} \cup (468..477)

\* the coordinates the face geometry g gives landmark i
Landmark(g, i) ==
  LET nx == g.nose[1]
      ny == g.nose[2]
      e  == Div(g.fw, R(4))                \* half the eye distance
      ey == Sub(ny, Div(g.fh, R(4)))       \* upper eyelid line
      my == Add(ny, Div(g.fh, R(4)))       \* upper lip line
  IN  CASE i = 1 -> Pt(nx, ny)
        [] i = 234 -> Pt(Sub(nx, Div(g.fw, R(2))), ny)
        [] i = 454 -> Pt(Add(nx, Div(g.fw, R(2))), ny)
        [] i = 10  -> Pt(nx, Sub(ny, Div(g.fh, R(2))))
        [] i = 152 -> Pt(nx, Add(ny, Div(g.fh, R(2))))
        [] i \in 468..471 -> Pt(Sub(g.iris[1], e), g.iris[2])
        [] i \in 473..476 -> Pt(Add(g.iris[1], e), g.iris[2])
        [] i \in {159, 160, 161, 246} -> Pt(Sub(nx, e), ey)
        [] i \in {145, 144, 153, 154} -> Pt(Sub(nx, e), Add(ey, g.eye))
        [] i \in {386, 385, 384, 398} -> Pt(Add(nx, e), ey)
        [] i \in {374, 373, 380, 381} -> Pt(Add(nx, e), Add(ey, g.eye))
        [] i = 33  -> Pt(Sub(nx, Mul(R(2), e)), ey)
        [] i = 263 -> Pt(Add(nx, Mul(R(2), e)), ey)
        [] i \in {13, 82, 312} -> Pt(nx, my)
        [] i \in {14, 87, 317, 17} -> Pt(nx, Add(my, g.mouth))
        [] i = 18 -> Pt(nx, Add(my, Mul(R(2), g.mouth)))
        [] OTHER -> Pt(nx, ny)

\* k[i] of the frame's scaledMesh: undefined past the end and at a hole
K(f, i) ==
  IF i < f.len /\ i \notin f.holes
  THEN (IF i \in DOMAIN f.pts THEN f.pts[i] ELSE f.g.nose)
  ELSE Undefined

Has(f, i) == K(f, i) # Undefined

HasAll(f, S) == \A i \in S : Has(f, i)

\* k.slice(a, b): the entries a .. b-1 that lie below k.length
Slice(f, a, b) ==
  LET n == IF IMin(b, f.len) > a THEN IMin(b, f.len) - a ELSE 0
  IN  [j \in 1..n |-> K(f, a + j - 1)]

\* the members of the annotation groups (all members of a group coincide
\* except the eye corners): leftEyeUpper0, leftEyeLower0, rightEyeUpper0,
\* rightEyeLower0, and the corner lists leftEye, rightEye
Annotation(g, name, j) ==
  LET nx == g.nose[1]
      e  == Div(g.fw, R(4))
      w  == Div(g.fw, R(8))
      ey == Sub(g.nose[2], Div(g.fh, R(4)))
  IN  CASE name = "leftEyeUpper0"  -> Pt(Sub(nx, e), ey)
        [] name = "leftEyeLower0"  -> Pt(Sub(nx, e), Add(ey, g.eye))
        [] name = "rightEyeUpper0" -> Pt(Add(nx, e), ey)
        [] name = "rightEyeLower0" -> Pt(Add(nx, e), Add(ey, g.eye))
        [] name = "leftEye"  -> Pt(IF j = 0 THEN Sub(Sub(nx, e), w) ELSE Add(Sub(nx, e), w), ey)
        [] name = "rightEye" -> Pt(IF j = 0 THEN Sub(Add(nx, e), w) ELSE Add(Add(nx, e), w), ey)

\* the groups and members the scripts read
AnnotationKeys ==
  {"leftEyeUpper0", "leftEyeLower0", "rightEyeUpper0", "rightEyeLower0",
   "leftEye", "rightEye"} \X {0, 3, 4}

\* face.annotations[name][j] of the frame
annotations(f, name, j) == f.notes[<<name, j>>]

(***************************************************************************)
(* Program state.  Every script keeps its state in module-level `let`s;    *)
(* the model names them uniformly:                                         *)
(*   variant   the script that is loaded                                   *)
(*   pc        "scheduled": a render is queued with requestAnimationFrame  *)
(*             "awaiting":  render is suspended in `await estimateFaces`   *)
(*             "stopped":   no render is queued or running                 *)
(*   now       performance.now() in ms; Date.now() is TimeOrigin + now     *)
(*   lastClick lastClick / lastBlink / lastBlinkOrMouth                    *)
(*   blink, mouth   the calibrators [samples, baseline, ready]             *)
(*   mouthOpenFrames, gaze [x, y, t = lastGazeTime], lastFaceKeypoints     *)
(*   smooth <<smoothX, smoothY>>, cursor <<style.left, style.top>> in px   *)
(*   canvas <<width, height>>, inner <<innerWidth, innerHeight>>           *)
(*   center [dx, dy, frames, done]  the auto-centre accumulator            *)
(*   flash     the cursor shows the click colour                           *)
(*   obs       history of the last render tick (not program state):        *)
(*             ticks started, whether it had a face and the eyelid and lip *)
(*             gaps of that face, whether and how long after the previous  *)
(*             activation it activated, which gaze source it chose and the *)
(*             target it gave the smoother; and when (performance.now())   *)
(*             the gaze listener last accepted a sample, and that sample's *)
(*             age when the tick began; how many render callbacks are      *)
(*             queued for the next animation frame and how many render     *)
(*             invocations are suspended in their await; whether the frame *)
(*             had every landmark and annotation, and whether it had all   *)
(*             but the iris landmarks; how many activations it made; and,  *)
(*             for part_005, on how many face-bearing ticks in a row up to *)
(*             this one (3 standing for 3 or more) the lips were farther   *)
(*             apart than 1.9 times a baseline that was ready when the     *)
(*             tick began, and whether the tick's mouth block called       *)
(*             doClickFeedback; and, in the run of SpecCentre, how many    *)
(*             face-bearing ticks there have been and on how many of the   *)
(*             first 30 of them the user was looking aside                 *)
(*   scene     what the camera sees in the paced run (SpecCalib): "rest"   *)
(*             until the user starts a gesture, then that gesture          *)
(***************************************************************************)
VARIABLES variant, pc, now, lastClick, blink, mouth, mouthOpenFrames, gaze,
          lastFaceKeypoints, smooth, cursor, canvas, inner, center, flash,
          obs, scene

vars == <<variant, pc, now, lastClick, blink, mouth, mouthOpenFrames, gaze,
          lastFaceKeypoints, smooth, cursor, canvas, inner, center, flash,
          obs, scene>>

\* the state as one record, so that a handler is a function of the state
St ==
  [variant |-> variant, pc |-> pc, now |-> now, lastClick |-> lastClick,
   blink |-> blink, mouth |-> mouth, mouthOpenFrames |-> mouthOpenFrames,
   gaze |-> gaze, lastFaceKeypoints |-> lastFaceKeypoints,
   smooth |-> smooth, cursor |-> cursor, canvas |-> canvas, inner |-> inner,
   center |-> center, flash |-> flash, obs |-> obs]

\* the next state is the record s
Becomes(s) ==
  /\ variant' = s.variant /\ pc' = s.pc /\ now' = s.now
  /\ lastClick' = s.lastClick /\ blink' = s.blink /\ mouth' = s.mouth
  /\ mouthOpenFrames' = s.mouthOpenFrames /\ gaze' = s.gaze
  /\ lastFaceKeypoints' = s.lastFaceKeypoints /\ smooth' = s.smooth
  /\ cursor' = s.cursor /\ canvas' = s.canvas /\ inner' = s.inner
  /\ center' = s.center /\ flash' = s.flash /\ obs' = s.obs

\* the state is the record s
Is(s) ==
  /\ variant = s.variant /\ pc = s.pc /\ now = s.now
  /\ lastClick = s.lastClick /\ blink = s.blink /\ mouth = s.mouth
  /\ mouthOpenFrames = s.mouthOpenFrames /\ gaze = s.gaze
  /\ lastFaceKeypoints = s.lastFaceKeypoints /\ smooth = s.smooth
  /\ cursor = s.cursor /\ canvas = s.canvas /\ inner = s.inner
  /\ center = s.center /\ flash = s.flash /\ obs = s.obs

\* the webcam's frame size and the window size at page load, and the epoch
\* time at page load (Date.now() when performance.now() is 0)
VideoW == 640
VideoH == 480
InnerW == 800
InnerH == 600
TimeOrigin == 1000000

\* the grid the smoothing update rounds to
PosGrid == 100

DateNow(s) == TimeOrigin + s.now

PerfNow(s) == s.now

NoCalib == [samples |-> <<>>, baseline |-> Undefined, ready |-> FALSE]

NoObs ==
  [ticks |-> 0, face |-> FALSE, eye |-> Undefined, mouth |-> Undefined,
   fired |-> FALSE, gap |-> -1, lastFire |-> -1,
   source |-> "none", target |-> Undefined, accepted |-> -1,
   age |-> -1, queued |-> 1, suspended |-> 0, whole |-> FALSE,
   irisless |-> FALSE, fires |-> 0, run |-> 0, mouthCall |-> FALSE,
   seen |-> 0, aside |-> 0]

\* what every script's construction has in common; each script's Construct
\* overrides the fields it initialises differently
Base(v) ==
  [variant |-> v, pc |-> "scheduled", now |-> 0, lastClick |-> 0,
   blink |-> NoCalib, mouth |-> NoCalib, mouthOpenFrames |-> 0,
   gaze |-> [x |-> R(0), y |-> R(0), t |-> 0],
   lastFaceKeypoints |-> Undefined,
   smooth |-> <<R(0), R(0)>>, cursor |-> <<Undefined, Undefined>>,
   canvas |-> <<VideoW, VideoH>>, inner |-> <<InnerW, InnerH>>,
   center |-> [dx |-> R(0), dy |-> R(0), frames |-> 0, done |-> FALSE],
   flash |-> FALSE, obs |-> NoObs]

(***************************************************************************)
(* Pieces of a render tick shared by the scripts                           *)
(***************************************************************************)
\* the tick begins: the history of the previous tick is forgotten
Began(s, f) ==
  [s EXCEPT !.obs = [@ EXCEPT !.ticks = @ + 1, !.face = (f.faces > 0),
                              !.eye = IF f.faces > 0 THEN f.g.eye ELSE Undefined,
                              !.mouth = IF f.faces > 0 THEN f.g.mouth ELSE Undefined,
                              !.fired = FALSE, !.gap = -1, !.fires = 0,
                              !.mouthCall = FALSE,
                              !.source = "none", !.target = Undefined,
                              !.age = IF s.obs.accepted < 0 THEN -1
                                      ELSE s.now - s.obs.accepted,
                              !.suspended = @ - 1,
                              !.whole = /\ f.faces > 0 /\ f.mesh /\ f.len = 478
                                        /\ f.holes = {} /\ f.ann /\ f.annEye,
                              !.irisless = /\ f.faces > 0 /\ f.mesh /\ f.len = 468
                                           /\ f.holes = {} /\ f.ann /\ f.annEye]]

\* a tick that asks for two animation frames
Again_twice(s) == [s EXCEPT !.pc = "scheduled", !.obs.queued = @ + 2]

\* requestAnimationFrame(render) at the end of the tick
Again(s) == [s EXCEPT !.pc = "scheduled", !.obs.queued = @ + 1]

\* an exception leaves render: the async function's promise rejects and
\* nothing is scheduled
Throws(s) == [s EXCEPT !.pc = "stopped"]

\* an activation that forgets to take the timestamp
Activate_unstamped(s, t) ==
  [s EXCEPT !.flash = TRUE,
            !.obs = [@ EXCEPT !.fired = TRUE, !.fires = @ + 1,
                              !.gap = IF s.obs.lastFire < 0 THEN -1
                                      ELSE s.now - s.obs.lastFire,
                              !.lastFire = s.now]]

\* the body of an activation: the timestamp is taken from clock value t,
\* the cursor flashes and the beep plays
Activate(s, t) ==
  [s EXCEPT !.lastClick = t, !.flash = TRUE,
            !.obs = [@ EXCEPT !.fired = TRUE, !.fires = @ + 1,
                              !.gap = IF s.obs.lastFire < 0 THEN -1
                                      ELSE s.now - s.obs.lastFire,
                              !.lastFire = s.now]]

\* a calibrator that goes on ingesting after it is ready
Calibrate_push(c, x, n) ==
  LET q == Append(c.samples, x)
  IN  IF Len(q) > n
      THEN [samples |-> q, baseline |-> Div(SumSeq(q), R(Len(q))), ready |-> TRUE]
      ELSE [c EXCEPT !.samples = q]

\* if (!ready) { samples.push(x); if (samples.length > n) { baseline = mean;
\* ready = true } }
Calibrate(c, x, n) ==
  IF c.ready THEN c
  ELSE LET q == Append(c.samples, x)
       IN  IF Len(q) > n
           THEN [samples |-> q, baseline |-> Div(SumSeq(q), R(Len(q))), ready |-> TRUE]
           ELSE [c EXCEPT !.samples = q]

\* the calibrated classifiers: signal < baseline * factor (blink) and
\* signal > baseline * factor (mouth)
\* a blink classifier that also takes the threshold itself for a blink
isBlink_le(eyeGap, baseline, factor) == Le(eyeGap, Mul(baseline, factor))

\* eyeGap < baseline * factor
isBlink(eyeGap, baseline, factor) == Lt(eyeGap, Mul(baseline, factor))

mouthOpen(mouthGap, baseline, factor) == Gt(mouthGap, Mul(baseline, factor))

\* a smoothing step that adds the whole difference once more
Lerp_past(v, target, a) == RoundTo(Add(v, Mul(Sub(target, v), Add(a, R(1)))), PosGrid)

\* v += (target - v) * a
Lerp(v, target, a) == RoundTo(Add(v, Mul(Sub(target, v), a)), PosGrid)

\* regionGap / gapRegion(mesh, topIndices, bottomIndices)
RECURSIVE GapSum(_, _, _, _)
GapSum(f, top, bot, n) ==
  IF n = 0 THEN R(0)
  ELSE Add(GapSum(f, top, bot, n - 1),
           Abs(Sub(K(f, top[n])[2], K(f, bot[n])[2])))

regionGap(f, top, bot) ==
  LET n == IMin(Len(top), Len(bot)) IN Div(GapSum(f, top, bot, n), R(n))

leftTop == <<159, 160, 161, 246>>
leftBot == <<145, 144, 153, 154>>
rightTop == <<386, 385, 384, 398>>
rightBot == <<374, 373, 380, 381>>

Range(q) == {q[i] : i \in DOMAIN q}

EyeIdx == Range(leftTop) \cup Range(leftBot) \cup Range(rightTop) \cup Range(rightBot)

\* for (const [x, y] of keypoints): throws on undefined and on a hole
Drawable(f) == f.mesh /\ f.holes = {}

\* the mean of a list of points as reduce computes it: NaN for no points
avg(q) ==
  LET n == R(Len(q))
  IN  <<Div(SumSeq([i \in DOMAIN q |-> q[i][1]]), n),
        Div(SumSeq([i \in DOMAIN q |-> q[i][2]]), n)>>

\* Math.max(lo, Math.min(hi, v))
Clamp(lo, hi, v) == Max(lo, Min(hi, v))

\* the tick ends with the target <<tx, ty>> chosen from source src
Aimed(s, src, tx, ty) == [s EXCEPT !.obs.source = src, !.obs.target = <<tx, ty>>]

(***************************************************************************)
(* script.js, first script: WebGazer with FaceMesh fallback, mouth click   *)
(***************************************************************************)
Construct_scriptA == Base("scriptA")

\* the gaze listener: lastGazeTime is taken from Date.now()
listener_scriptA(s, d) ==
  IF d = Undefined THEN s
  ELSE [s EXCEPT !.gaze = [x |-> d[1], y |-> d[2], t |-> DateNow(s)]]

render_scriptA(s, f) ==
  IF f.faces = 0 THEN Again(s)
  ELSE IF ~Drawable(f) \/ ~HasAll(f, {13, 14, 17, 18}) THEN Throws(s)
  ELSE
  LET cw == R(s.canvas[1])
      ch == R(s.canvas[2])
      haveWebGazer == PerfNow(s) - s.gaze.t < 400
      lerp == IF haveWebGazer THEN Norm(25, 100) ELSE Norm(15, 100)
      \* calibration, then mouth detection
      click(mouthGap) ==
        IF ~s.mouth.ready
        THEN [s EXCEPT !.mouth = Calibrate(s.mouth, mouthGap, 50)]
        ELSE IF mouthOpen(mouthGap, s.mouth.baseline, Norm(165, 100))
                /\ DateNow(s) - s.lastClick > 900
             THEN Activate(s, DateNow(s))
             ELSE s
      move(u, targetX, targetY, sx, sy) ==
        Again(Aimed([u EXCEPT !.smooth = <<sx, sy>>, !.cursor = <<sx, sy>>],
                    IF haveWebGazer THEN "external" ELSE "fallback",
                    targetX, targetY))
      smoothTo(u, targetX, targetY) ==
        move(u, targetX, targetY,
             Lerp(Lerp(u.smooth[1], targetX, Norm(25, 100)), targetX, lerp),
             Lerp(Lerp(u.smooth[2], targetY, Norm(25, 100)), targetY, lerp))
      aim(u, fbX, fbY) ==
        LET normX == Div(s.gaze.x, R(s.inner[1]))
            normY == Div(s.gaze.y, R(s.inner[2]))
        IN  smoothTo(u, IF haveWebGazer THEN Sub(cw, Mul(normX, cw)) ELSE Sub(cw, fbX),
                        IF haveWebGazer THEN Mul(normY, ch) ELSE fbY)
      fallback(u, nose, leftIris, rightIris) ==
        LET irisX == Div(Add(leftIris[1], rightIris[1]), R(2))
            irisY == Div(Add(leftIris[2], rightIris[2]), R(2))
            faceW == Max(R(40), Sub(K(f, 454)[1], K(f, 234)[1]))
            faceH == Max(R(50), Sub(K(f, 152)[2], K(f, 10)[2]))
            ndx == Div(Sub(irisX, nose[1]), faceW)
            ndy == Div(Sub(irisY, nose[2]), faceH)
        IN  aim(u, Clamp(R(0), cw, Sub(Div(cw, R(2)), Mul(Mul(ndx, cw), Norm(22, 10)))),
                   Clamp(R(0), ch, Add(Div(ch, R(2)), Mul(Mul(ndy, ch), Norm(20, 10)))))
      gazeOf(u) ==
        IF ~HasAll(f, {1, 234, 454, 10, 152}) THEN Throws(u)
        ELSE fallback(u, K(f, 1), avg(Slice(f, 468, 472)), avg(Slice(f, 473, 477)))
  IN  gazeOf(click(regionGap(f, <<13, 14>>, <<17, 18>>)))

(***************************************************************************)
(* script.js, second script: iris cursor with auto-centre, blink click     *)
(***************************************************************************)
CENTER_FRAMES_NEEDED == 30

Construct_scriptB == Base("scriptB")

\* an accumulator that takes one frame more
Centered_more(c, dx, dy) ==
  IF c.frames <= CENTER_FRAMES_NEEDED
  THEN [c EXCEPT !.dx = Add(@, dx), !.dy = Add(@, dy), !.frames = @ + 1]
  ELSE c

\* the auto-centre accumulator after one more frame with offset <<dx, dy>>
Centered(c, dx, dy) ==
  IF c.frames < CENTER_FRAMES_NEEDED
  THEN [c EXCEPT !.dx = Add(@, dx), !.dy = Add(@, dy), !.frames = @ + 1]
  ELSE c

\* the render loop of the auto-centre scripts (script.js second script and
\* part_003 first script differ in the gains only)
render_autocentre(s, f, H_GAIN, V_GAIN) ==
  IF f.faces = 0 THEN Again(s)
  ELSE IF ~Drawable(f) \/ ~HasAll(f, {234, 454, 10, 152, 1}) THEN Throws(s)
  ELSE
  LET cw == R(s.canvas[1])
      ch == R(s.canvas[2])
      \* the cursor moves to the smoothed point <<sx, sy>>
      move(c, targetX, targetY, sx, sy) ==
        Aimed([s EXCEPT !.center = c, !.smooth = <<sx, sy>>,
                        !.cursor = <<Sub(cw, sx), sy>>],
              "fallback", targetX, targetY)
      smoothTo(c, targetX, targetY) ==
        move(c, targetX, targetY, Lerp(s.smooth[1], targetX, Norm(2, 10)),
                                  Lerp(s.smooth[2], targetY, Norm(2, 10)))
      \* the offsets less the centre c accumulated so far
      aim(c, dx0, dy0) ==
        LET cX == IF c.frames # 0 THEN Div(c.dx, R(c.frames)) ELSE R(0)
            cY == IF c.frames # 0 THEN Div(c.dy, R(c.frames)) ELSE R(0)
            dx == Sub(dx0, cX)
            dy == Sub(dy0, cY)
        IN  smoothTo(c, Clamp(R(0), cw, Sub(Div(cw, R(2)), Mul(Mul(dx, cw), H_GAIN))),
                        Clamp(R(0), ch, Add(Div(ch, R(2)), Mul(Mul(dy, ch), V_GAIN))))
      centre(dx0, dy0) == aim(Centered(s.center, dx0, dy0), dx0, dy0)
      offsets(nose, leftIris, rightIris) ==
        LET faceW == Max(R(40), Sub(K(f, 454)[1], K(f, 234)[1]))
            faceH == Max(R(60), Sub(K(f, 152)[2], K(f, 10)[2]))
            irisX == Div(Add(leftIris[1], rightIris[1]), R(2))
            irisY == Div(Add(leftIris[2], rightIris[2]), R(2))
        IN  centre(Div(Sub(irisX, nose[1]), faceW), Div(Sub(irisY, nose[2]), faceH))
      \* calibration, then blink detection on the mean eyelid gap
      wink(u, eyeGap) ==
        IF ~u.blink.ready
        THEN Again([u EXCEPT !.blink = Calibrate(u.blink, eyeGap, 45)])
        ELSE IF isBlink(eyeGap, u.blink.baseline, Norm(55, 100))
                /\ DateNow(u) - u.lastClick > 750
             THEN Again(Activate(u, DateNow(u)))
             ELSE Again(u)
      eyes(u) ==
        IF ~HasAll(f, EyeIdx) THEN Throws(u)
        ELSE wink(u, Div(Add(regionGap(f, leftTop, leftBot),
                             regionGap(f, rightTop, rightBot)), R(2)))
  IN  eyes(offsets(K(f, 1), avg(Slice(f, 468, 472)), avg(Slice(f, 473, 477))))

render_scriptB(s, f) == render_autocentre(s, f, Norm(18, 10), Norm(16, 10))

(***************************************************************************)
(* part_000, first script: cursor between the eyelids, fixed blink         *)
(***************************************************************************)
Construct_p000A == Base("p000A")

render_p000A(s, f) ==
  IF ~(f.faces > 0 /\ f.mesh) THEN Again(s)
  ELSE IF ~Drawable(f) \/ ~HasAll(f, {159, 386}) THEN Throws(s)
  ELSE
  LET place(leftEye, rightEye) ==
        [s EXCEPT !.cursor = <<Div(Add(leftEye[1], rightEye[1]), R(2)),
                               Div(Add(leftEye[2], rightEye[2]), R(2))>>]
      wink(u, eyeDist) ==
        IF Lt(eyeDist, R(2)) /\ DateNow(u) - u.lastClick > 500
        THEN Again(Activate(u, DateNow(u)))
        ELSE Again(u)
      eyes(u) ==
        IF ~Has(f, 145) THEN Throws(u)
        ELSE wink(u, Abs(Sub(K(f, 159)[2], K(f, 145)[2])))
  IN  eyes(place(K(f, 159), K(f, 386)))

(***************************************************************************)
(* part_000, second script: WebGazer cursor, blink and mouth click         *)
(***************************************************************************)
Construct_p000B ==
  [Base("p000B") EXCEPT !.gaze = [x |-> Undefined, y |-> Undefined, t |-> 0],
                        !.smooth = <<Div(R(InnerW), R(2)), Div(R(InnerH), R(2))>>]

\* the gaze listener of the scripts that keep no timestamp
listener_plain(s, d) ==
  IF d = Undefined THEN s ELSE [s EXCEPT !.gaze.x = d[1], !.gaze.y = d[2]]

\* a feedback that does not look at the time of the last one
doClickFeedback_p000B_eager(s) == Activate(s, DateNow(s))

doClickFeedback_p000B(s) ==
  IF DateNow(s) - s.lastClick < 500 THEN s ELSE Activate(s, DateNow(s))

MouthIdx == {13, 82, 312, 14, 87, 317}

render_p000B(s, f) ==
  LET tail(u) ==
        LET viewW == R(u.inner[1])
            viewH == R(u.inner[2])
            targetX == IF u.gaze.x # Undefined THEN u.gaze.x ELSE Div(viewW, R(2))
            targetY == IF u.gaze.y # Undefined THEN u.gaze.y ELSE Div(viewH, R(2))
            sx == Lerp(u.smooth[1], targetX, Norm(20, 100))
            sy == Lerp(u.smooth[2], targetY, Norm(20, 100))
            clampedX == Min(Max(R(0), sx), Sub(viewW, R(10)))
            clampedY == Min(Max(R(0), sy), Sub(viewH, R(10)))
        IN  Again(Aimed([u EXCEPT !.smooth = <<sx, sy>>,
                                  !.cursor = <<clampedX, clampedY>>],
                        IF u.gaze.x # Undefined THEN "external" ELSE "none",
                        targetX, targetY))
  IN
  IF f.faces = 0 THEN tail(s)
  ELSE IF ~Drawable(f) \/ ~HasAll(f, EyeIdx \cup MouthIdx) THEN Throws(s)
  ELSE
  LET eyeGap == Div(Add(regionGap(f, leftTop, leftBot),
                        regionGap(f, rightTop, rightBot)), R(2))
      mouthGap == regionGap(f, <<13, 82, 312>>, <<14, 87, 317>>)
      s1 == [s EXCEPT !.blink = Calibrate(s.blink, eyeGap, 50),
                      !.mouth = Calibrate(s.mouth, mouthGap, 50)]
      s2 == IF s1.blink.ready /\ isBlink(eyeGap, s1.blink.baseline, Norm(65, 100))
            THEN doClickFeedback_p000B(s1) ELSE s1
      s3 == IF s2.mouth.ready /\ mouthOpen(mouthGap, s2.mouth.baseline, Norm(16, 10))
            THEN doClickFeedback_p000B(s2) ELSE s2
  IN  tail(s3)

(***************************************************************************)
(* part_000, third script: WebGazer cursor, fixed two-eye blink            *)
(***************************************************************************)
Construct_p000C == Base("p000C")

\* smoothX += (gazeX - smoothX) * 0.2; the cursor is written unclamped
follow_gaze(u) ==
  LET sx == Lerp(u.smooth[1], u.gaze.x, Norm(2, 10))
      sy == Lerp(u.smooth[2], u.gaze.y, Norm(2, 10))
  IN  Again(Aimed([u EXCEPT !.smooth = <<sx, sy>>, !.cursor = <<sx, sy>>],
                  "external", u.gaze.x, u.gaze.y))

render_p000C(s, f) ==
  IF f.faces = 0 THEN follow_gaze(s)
  ELSE IF ~Drawable(f) \/ ~HasAll(f, {159, 145, 386, 374}) THEN Throws(s)
  ELSE
  LET leftBlinkDist == Abs(Sub(K(f, 159)[2], K(f, 145)[2]))
      rightBlinkDist == Abs(Sub(K(f, 386)[2], K(f, 374)[2]))
      blinked == Lt(leftBlinkDist, Norm(25, 10)) /\ Lt(rightBlinkDist, Norm(25, 10))
  IN  IF blinked /\ DateNow(s) - s.lastClick > 500
      THEN follow_gaze(Activate(s, DateNow(s)))
      ELSE follow_gaze(s)

(***************************************************************************)
(* part_001: FaceMesh-only cursor, mouth click                             *)
(***************************************************************************)
Construct_p001 ==
  [Base("p001") EXCEPT !.smooth = <<Div(R(VideoW), R(2)), Div(R(VideoH), R(2))>>]

resize_p001(s) ==
  LET c == [s EXCEPT !.canvas = <<VideoW, VideoH>>]
  IN  IF s.smooth = <<R(0), R(0)>>
      THEN [c EXCEPT !.smooth = <<Div(R(VideoW), R(2)), Div(R(VideoH), R(2))>>]
      ELSE c

\* avgGap with `if (!t || !b) continue`: a missing pair adds nothing, the
\* divisor stays n
RECURSIVE GuardedGapSum(_, _, _, _)
GuardedGapSum(f, top, bot, n) ==
  IF n = 0 THEN R(0)
  ELSE Add(GuardedGapSum(f, top, bot, n - 1),
           IF Has(f, top[n]) /\ Has(f, bot[n])
           THEN Abs(Sub(K(f, top[n])[2], K(f, bot[n])[2])) ELSE R(0))

avgGap(f, top, bot) ==
  LET n == IMin(Len(top), Len(bot)) IN Div(GuardedGapSum(f, top, bot, n), R(n))

\* the mean of the four iris landmarks from index a, else landmark alt, else null
irisOr(f, a, alt) ==
  IF HasAll(f, a..(a + 3)) THEN avg([j \in 1..4 |-> K(f, a + j - 1)])
  ELSE K(f, alt)

\* k[i] || nose
orNose(f, i) == IF Has(f, i) THEN K(f, i) ELSE K(f, 1)

render_p001(s, f) ==
  LET tail(u, tx, ty) ==
        LET sx == Lerp(u.smooth[1], tx, Norm(25, 100))
            sy == Lerp(u.smooth[2], ty, Norm(25, 100))
        IN  Again([u EXCEPT !.smooth = <<sx, sy>>, !.cursor = <<sx, sy>>,
                            !.obs.target = <<tx, ty>>])
      cw == R(s.canvas[1])
      ch == R(s.canvas[2])
  IN
  IF f.faces = 0 THEN tail(s, Div(cw, R(2)), Div(ch, R(2)))
  ELSE IF ~Drawable(f) THEN Throws(s)
  ELSE
  LET mouthGap == avgGap(f, <<13, 14>>, <<17, 18>>)
      s1 == IF ~s.mouth.ready
            THEN [s EXCEPT !.mouth = Calibrate(s.mouth, mouthGap, 40)]
            ELSE IF mouthOpen(mouthGap, s.mouth.baseline, Norm(17, 10))
                    /\ PerfNow(s) - s.lastClick > 900
                 THEN Activate(s, PerfNow(s))
                 ELSE s
      nose == K(f, 1)
      leftIris == irisOr(f, 468, 159)
      rightIris == irisOr(f, 473, 386)
  IN
  IF nose = Undefined \/ leftIris = Undefined \/ rightIris = Undefined
  THEN tail(s1, s1.smooth[1], s1.smooth[2])
  ELSE
  LET irisX == Div(Add(leftIris[1], rightIris[1]), R(2))
      irisY == Div(Add(leftIris[2], rightIris[2]), R(2))
      faceW == Max(R(40), Sub(orNose(f, 454)[1], orNose(f, 234)[1]))
      faceH == Max(R(50), Sub(orNose(f, 152)[2], orNose(f, 10)[2]))
      ndx == Div(Sub(irisX, nose[1]), faceW)
      ndy == Div(Sub(irisY, nose[2]), faceH)
      rawX == Add(Sub(Div(cw, R(2)), Mul(Mul(ndx, cw), R(2))), R(0))
      rawY == Add(Div(ch, R(2)), Mul(Mul(Sub(ndy, Norm(5, 100)), ch), R(2)))
  IN  tail([s1 EXCEPT !.obs.source = "fallback"],
           Clamp(R(0), cw, rawX), Clamp(R(0), ch, rawY))

(***************************************************************************)
(* part_002: cursor between the eyelids, fixed blink, short-mesh guard     *)
(***************************************************************************)
Construct_p002 == Base("p002")

\* `return` before requestAnimationFrame(render): nothing is scheduled
Returns(s) == [s EXCEPT !.pc = "stopped"]

render_p002(s, f) ==
  IF ~(f.faces > 0 /\ f.mesh) THEN Again(s)
  ELSE IF f.len < 387 THEN Returns(s)
  ELSE IF ~Drawable(f) \/ ~HasAll(f, {159, 386}) THEN Throws(s)
  ELSE
  LET leftEye == K(f, 159)
      rightEye == K(f, 386)
      dx == Div(Add(rightEye[1], leftEye[1]), R(2))
      dy == Div(Add(rightEye[2], leftEye[2]), R(2))
      s1 == [s EXCEPT !.cursor = <<dx, dy>>]
  IN
  IF ~Has(f, 145) THEN Throws(s1)
  ELSE
  LET eyeDist == Abs(Sub(K(f, 159)[2], K(f, 145)[2]))
  IN  IF Lt(eyeDist, R(2)) /\ DateNow(s1) - s1.lastClick > 500
      THEN Again(Activate(s1, DateNow(s1)))
      ELSE Again(s1)

(***************************************************************************)
(* part_003, first script: iris cursor with auto-centre, blink click       *)
(***************************************************************************)
Construct_p003A == Base("p003A")

render_p003A(s, f) == render_autocentre(s, f, Norm(15, 10), Norm(15, 10))

(***************************************************************************)
(* part_003, second script: cursor from the eye annotations, fixed blink   *)
(***************************************************************************)
Construct_p003B == Base("p003B")

render_p003B(s, f) ==
  IF ~(f.faces > 0 /\ f.mesh) THEN Again(s)
  ELSE IF ~Drawable(f) THEN Throws(s)
  ELSE
  LET \* the cursor from the left eye's corners and lids
      gazeOf(eyeInner, eyeOuter, upperMid, lowerMid) ==
        LET eyeCenterX == Div(Add(eyeInner[1], eyeOuter[1]), R(2))
            eyeCenterY == Div(Add(upperMid[2], lowerMid[2]), R(2))
            eyeWidth == Abs(Sub(eyeOuter[1], eyeInner[1]))
            eyeHeight == Abs(Sub(upperMid[2], lowerMid[2]))
            normX == Div(Sub(eyeCenterX, eyeOuter[1]), eyeWidth)
            normY == Div(Sub(eyeCenterY, upperMid[2]), eyeHeight)
            gx == Sub(R(s.canvas[1]), Mul(normX, R(s.canvas[1])))
            gy == Mul(normY, R(s.canvas[2]))
        IN  [s EXCEPT !.cursor = <<gx, gy>>]
      wink(u, eyeDist) ==
        IF Lt(eyeDist, R(2)) /\ DateNow(u) - u.lastClick > 500
        THEN Again(Activate(u, DateNow(u)))
        ELSE Again(u)
      eyes(u) ==
        IF ~f.ann THEN Throws(u)  \* face.annotations.leftEyeUpper0 of undefined
        ELSE wink(u, Abs(Sub(annotations(f, "leftEyeUpper0", 0)[2],
                             annotations(f, "leftEyeLower0", 0)[2])))
  IN  eyes(IF f.ann /\ f.annEye
           THEN gazeOf(annotations(f, "leftEye", 3), annotations(f, "leftEye", 0),
                       annotations(f, "leftEyeUpper0", 3),
                       annotations(f, "leftEyeLower0", 4))
           ELSE s)

(***************************************************************************)
(* part_003, third script: WebGazer with FaceMesh fallback, mouth click    *)
(***************************************************************************)
Construct_p003C == [Base("p003C") EXCEPT !.smooth = <<R(120), R(120)>>]

\* a listener that takes every sample that is not null
listener_validated_any(s, d) ==
  IF d = Undefined THEN s
  ELSE [s EXCEPT !.gaze = [x |-> d[1], y |-> d[2], t |-> PerfNow(s)]]

\* the gaze listener that accepts in-viewport samples only and stamps them
\* with performance.now()
listener_validated(s, d) ==
  IF d = Undefined THEN s
  ELSE IF Ge(d[1], R(0)) /\ Le(d[1], R(s.inner[1]))
          /\ Ge(d[2], R(0)) /\ Le(d[2], R(s.inner[2]))
       THEN [s EXCEPT !.gaze = [x |-> d[1], y |-> d[2], t |-> PerfNow(s)]]
       ELSE s

render_p003C(s, f) ==
  LET tail(u, tx, ty) ==
        LET sx == Lerp(u.smooth[1], tx, Norm(25, 100))
            sy == Lerp(u.smooth[2], ty, Norm(25, 100))
        IN  Again([u EXCEPT !.smooth = <<sx, sy>>, !.cursor = <<sx, sy>>,
                            !.obs.target = <<tx, ty>>])
      cw == R(s.canvas[1])
      ch == R(s.canvas[2])
  IN
  IF f.faces = 0 THEN tail(s, Div(cw, R(2)), Div(ch, R(2)))
  ELSE IF ~Drawable(f) THEN Throws(s)
  ELSE
  LET mouthGap == avgGap(f, <<13, 14>>, <<17, 18>>)
      s1 == IF ~s.mouth.ready
            THEN [s EXCEPT !.mouth = Calibrate(s.mouth, mouthGap, 40)]
            ELSE IF mouthOpen(mouthGap, s.mouth.baseline, Norm(17, 10))
                    /\ PerfNow(s) - s.lastClick > 900
                 THEN Activate(s, PerfNow(s))
                 ELSE s
      nose == K(f, 1)
      leftIris == irisOr(f, 468, 159)
      rightIris == irisOr(f, 473, 386)
      usable == nose # Undefined /\ leftIris # Undefined /\ rightIris # Undefined
      irisX == Div(Add(leftIris[1], rightIris[1]), R(2))
      irisY == Div(Add(leftIris[2], rightIris[2]), R(2))
      faceW == Max(R(40), Sub(orNose(f, 454)[1], orNose(f, 234)[1]))
      faceH == Max(R(50), Sub(orNose(f, 152)[2], orNose(f, 10)[2]))
      ndx == Div(Sub(irisX, nose[1]), faceW)
      ndy == Div(Sub(irisY, nose[2]), faceH)
      fbX == IF usable
             THEN Clamp(R(0), cw, Sub(Div(cw, R(2)), Mul(Mul(ndx, cw), Norm(24, 10))))
             ELSE Div(cw, R(2))
      fbY == IF usable
             THEN Clamp(R(0), ch, Add(Div(ch, R(2)), Mul(Mul(ndy, ch), Norm(22, 10))))
             ELSE Div(ch, R(2))
      webgazerFresh == PerfNow(s) - s.gaze.t < 350
      normX == Div(s.gaze.x, R(s.inner[1]))
      normY == Div(s.gaze.y, R(s.inner[2]))
  IN  IF webgazerFresh
      THEN tail([s1 EXCEPT !.obs.source = "external"],
                Sub(cw, Mul(normX, cw)), Mul(normY, ch))
      ELSE tail([s1 EXCEPT !.obs.source = "fallback"], Sub(cw, fbX), fbY)

(***************************************************************************)
(* part_004: iris-offset cursor, fixed two-eye blink                       *)
(***************************************************************************)
Construct_p004 == Base("p004")

\* k[i] || alt
orElse(f, i, alt) == IF Has(f, i) THEN K(f, i) ELSE alt

render_p004(s, f) ==
  IF f.faces = 0 THEN Again(s)
  ELSE IF ~Drawable(f) \/ ~HasAll(f, {159, 145, 386, 374, 1}) THEN Throws(s)
  ELSE
  LET leftIrisCenter == orElse(f, 468, K(f, 159))
      rightIrisCenter == orElse(f, 473, K(f, 386))
      leftBlinkDist == Abs(Sub(K(f, 159)[2], K(f, 145)[2]))
      rightBlinkDist == Abs(Sub(K(f, 386)[2], K(f, 374)[2]))
      blinked == Lt(leftBlinkDist, Norm(25, 10)) /\ Lt(rightBlinkDist, Norm(25, 10))
      nose == K(f, 1)
      avgIrisX == Div(Add(leftIrisCenter[1], rightIrisCenter[1]), R(2))
      avgIrisY == Div(Add(leftIrisCenter[2], rightIrisCenter[2]), R(2))
      dx == Mul(Sub(avgIrisX, nose[1]), R(8))
      dy == Mul(Sub(avgIrisY, nose[2]), R(8))
      targetX == Sub(Div(R(s.canvas[1]), R(2)), dx)
      targetY == Add(Div(R(s.canvas[2]), R(2)), dy)
      sx == Lerp(s.smooth[1], targetX, Norm(15, 100))
      sy == Lerp(s.smooth[2], targetY, Norm(15, 100))
      s1 == Aimed([s EXCEPT !.smooth = <<sx, sy>>,
                            !.cursor = <<Sub(R(s.canvas[1]), sx), sy>>],
                  "fallback", targetX, targetY)
  IN  IF blinked /\ DateNow(s1) - s1.lastClick > 500
      THEN Again(Activate(s1, DateNow(s1)))
      ELSE Again(s1)

(***************************************************************************)
(* part_005: WebGazer cursor with face fallback, blink and 3-frame mouth   *)
(***************************************************************************)
Construct_p005 ==
  [Base("p005") EXCEPT !.gaze = [x |-> Undefined, y |-> Undefined, t |-> 0],
                       !.smooth = <<Div(R(InnerW), R(2)), Div(R(InnerH), R(2))>>]

doClickFeedback_p005(s) ==
  IF DateNow(s) - s.lastClick < 700 THEN s ELSE Activate(s, DateNow(s))

\* the 120 ms poll of webgazer.getCurrentPrediction()
poll_p005(s, d) ==
  IF d = Undefined THEN s ELSE [s EXCEPT !.gaze.x = d[1], !.gaze.y = d[2]]

\* fallbackGazeFromFace(k) for the stored mesh k, given the window size
fallbackGazeFromFace(k, inn) ==
  LET nose == K(k, 1)
      leftIris == orElse(k, 468, K(k, 159))
      rightIris == orElse(k, 473, K(k, 386))
      irisX == Div(Add(leftIris[1], rightIris[1]), R(2))
      irisY == Div(Add(leftIris[2], rightIris[2]), R(2))
      dx == Mul(Sub(irisX, nose[1]), R(6))
      dy == Mul(Sub(irisY, nose[2]), R(6))
  IN  <<Sub(Div(R(inn[1]), R(2)), dx), Add(Div(R(inn[2]), R(2)), dy)>>

\* the cursor movement that ends every tick
move_p005(u) ==
  LET useGaze == u.gaze.x # Undefined /\ u.gaze.y # Undefined
      useFace == ~useGaze /\ u.lastFaceKeypoints # Undefined
      k == u.lastFaceKeypoints
  IN
  IF useFace /\ ~(Has(k, 1) /\ (Has(k, 468) \/ Has(k, 159))
                            /\ (Has(k, 473) \/ Has(k, 386)))
  THEN Throws(u)
  ELSE
  LET fb == fallbackGazeFromFace(k, u.inner)
      targetX == IF useGaze THEN u.gaze.x
                 ELSE IF useFace THEN fb[1] ELSE Div(R(u.inner[1]), R(2))
      targetY == IF useGaze THEN u.gaze.y
                 ELSE IF useFace THEN fb[2] ELSE Div(R(u.inner[2]), R(2))
      sx == Lerp(u.smooth[1], targetX, Norm(2, 10))
      sy == Lerp(u.smooth[2], targetY, Norm(2, 10))
      clampedX == Min(Max(R(0), sx), Sub(R(u.inner[1]), R(12)))
      clampedY == Min(Max(R(0), sy), Sub(R(u.inner[2]), R(12)))
  IN  Again(Aimed([u EXCEPT !.smooth = <<sx, sy>>,
                            !.cursor = <<clampedX, clampedY>>],
                  IF useGaze THEN "external"
                  ELSE IF useFace THEN "fallback" ELSE "none",
                  targetX, targetY))

\* a mouth counter that is content with two open frames
debounce_p005_two(s, open) ==
  LET n == IF open THEN s.mouthOpenFrames + 1 ELSE 0
  IN  IF n >= 2
      THEN [doClickFeedback_p005(s) EXCEPT !.mouthOpenFrames = 0,
                                           !.obs.mouthCall = TRUE]
      ELSE [s EXCEPT !.mouthOpenFrames = n]

\* the mouth counter: the feedback is called on the third open frame
debounce_p005(s, open) ==
  LET n == IF open THEN s.mouthOpenFrames + 1 ELSE 0
  IN  IF n >= 3
      THEN [doClickFeedback_p005(s) EXCEPT !.mouthOpenFrames = 0,
                                           !.obs.mouthCall = TRUE]
      ELSE [s EXCEPT !.mouthOpenFrames = n]

\* the body of if (faces.length > 0): blink, then mouth
face_p005(s, f) ==
  LET s0 == [s EXCEPT !.lastFaceKeypoints = IF f.mesh THEN f ELSE Undefined,
                      !.obs.run = IF /\ s.mouth.ready
                                     /\ Gt(f.g.mouth, Mul(s.mouth.baseline, Norm(19, 10)))
                                  THEN IMin(3, @ + 1) ELSE 0]
  IN
  IF ~Drawable(f) \/ ~HasAll(f, EyeIdx) THEN Throws(s0)
  ELSE
  LET eyeGap == Div(Add(regionGap(f, leftTop, leftBot),
                        regionGap(f, rightTop, rightBot)), R(2))
      s1 == IF ~s0.blink.ready
            THEN [s0 EXCEPT !.blink = Calibrate(s0.blink, eyeGap, 50)]
            ELSE IF isBlink(eyeGap, s0.blink.baseline, Norm(65, 100))
                 THEN doClickFeedback_p005(s0) ELSE s0
  IN
  IF ~HasAll(f, MouthIdx) THEN Throws(s1)
  ELSE
  LET mouthGap == regionGap(f, <<13, 82, 312>>, <<14, 87, 317>>)
  IN  IF ~s1.mouth.ready
      THEN [s1 EXCEPT !.mouth = Calibrate(s1.mouth, mouthGap, 50)]
      ELSE debounce_p005(s1, mouthOpen(mouthGap, s1.mouth.baseline, Norm(19, 10)))

\* a detection block that takes a frame without a face for a closed mouth
detect_p005_closed(s, f) ==
  IF f.faces > 0 THEN face_p005(s, f) ELSE [s EXCEPT !.mouthOpenFrames = 0]

\* if (faces.length > 0) { ... }: nothing is done without a face
detect_p005(s, f) ==
  IF f.faces > 0 THEN face_p005(s, f) ELSE s

render_p005(s, f) ==
  LET u == detect_p005(s, f)
  IN  IF u.pc = "stopped" THEN u ELSE move_p005(u)

(***************************************************************************)
(* part_006, part_008 (both scripts): iris-offset cursor, blink click       *)
(***************************************************************************)
Construct_p006 == Base("p006")

Construct_p008A == Base("p008A")

Construct_p008B == Base("p008B")

\* the cursor block the three scripts share: target = centre -/+ (iris -
\* nose) * 7, smoothing 0.15, mirrored write
iris_cursor(s, f) ==
  LET lC == avg(Slice(f, 468, 472))
      rC == avg(Slice(f, 473, 477))
      nose == K(f, 1)
      dx == Mul(Sub(Div(Add(lC[1], rC[1]), R(2)), nose[1]), R(7))
      dy == Mul(Sub(Div(Add(lC[2], rC[2]), R(2)), nose[2]), R(7))
      targetX == Sub(Div(R(s.canvas[1]), R(2)), dx)
      targetY == Add(Div(R(s.canvas[2]), R(2)), dy)
      sx == Lerp(s.smooth[1], targetX, Norm(15, 100))
      sy == Lerp(s.smooth[2], targetY, Norm(15, 100))
  IN  Aimed([s EXCEPT !.smooth = <<sx, sy>>,
                      !.cursor = <<Sub(R(s.canvas[1]), sx), sy>>],
            "fallback", targetX, targetY)

\* a blink block that already answers to a nearly closed eye while it is
\* still calibrating
blink_700_uncalibrated(s, eyeAvg) ==
  IF ~s.blink.ready
  THEN IF Lt(eyeAvg, R(5)) /\ DateNow(s) - s.lastClick > 700
       THEN Activate([s EXCEPT !.blink = Calibrate(s.blink, eyeAvg, 60)], DateNow(s))
       ELSE [s EXCEPT !.blink = Calibrate(s.blink, eyeAvg, 60)]
  ELSE IF isBlink(eyeAvg, s.blink.baseline, Norm(65, 100))
          /\ DateNow(s) - s.lastClick > 700
       THEN Activate(s, DateNow(s))
       ELSE s

\* the calibrated blink block of part_006 / part_008 / part_012 for the
\* eyelid gap eyeAvg
blink_700(s, eyeAvg) ==
  IF ~s.blink.ready
  THEN [s EXCEPT !.blink = Calibrate(s.blink, eyeAvg, 60)]
  ELSE IF isBlink(eyeAvg, s.blink.baseline, Norm(65, 100))
          /\ DateNow(s) - s.lastClick > 700
       THEN Activate(s, DateNow(s))
       ELSE s

render_p006(s, f) ==
  IF f.faces = 0 THEN Again(s)
  ELSE IF ~Drawable(f) \/ ~Has(f, 1) THEN Throws(s)
  ELSE
  LET s1 == iris_cursor(s, f)
  IN  IF ~HasAll(f, EyeIdx) THEN Throws(s1)
      ELSE Again(blink_700(s1, Div(Add(regionGap(f, leftTop, leftBot),
                                       regionGap(f, rightTop, rightBot)), R(2))))

\* avgEyeDistance(keypoints, topIdx, bottomIdx)
avgEyeDistance(f, top, bot) ==
  LET topAvg == Div(SumSeq([i \in DOMAIN top |-> K(f, top[i])[2]]), R(Len(top)))
      botAvg == Div(SumSeq([i \in DOMAIN bot |-> K(f, bot[i])[2]]), R(Len(bot)))
  IN  Abs(Sub(topAvg, botAvg))

render_p008A(s, f) ==
  IF f.faces = 0 THEN Again(s)
  ELSE IF ~Drawable(f) \/ ~Has(f, 1) THEN Throws(s)
  ELSE
  LET s1 == iris_cursor(s, f)
  IN  IF ~HasAll(f, EyeIdx) THEN Throws(s1)
      ELSE Again(blink_700(s1, Div(Add(avgEyeDistance(f, leftTop, leftBot),
                                       avgEyeDistance(f, rightTop, rightBot)), R(2))))

render_p008B(s, f) ==
  IF f.faces = 0 THEN Again(s)
  ELSE IF ~Drawable(f) \/ ~Has(f, 1) THEN Throws(s)
  ELSE
  LET s1 == iris_cursor(s, f)
  IN
  IF ~HasAll(f, {159, 145, 386, 374, 10, 152}) THEN Throws(s1)
  ELSE
  LET leftEyeDist == Abs(Sub(K(f, 159)[2], K(f, 145)[2]))
      rightEyeDist == Abs(Sub(K(f, 386)[2], K(f, 374)[2]))
      eyeAvg == Div(Add(leftEyeDist, rightEyeDist), R(2))
      faceHeight == Abs(Sub(K(f, 10)[2], K(f, 152)[2]))
      blinkThreshold == Mul(faceHeight, Norm(15, 1000))
  IN  IF Lt(eyeAvg, blinkThreshold) /\ DateNow(s1) - s1.lastClick > 700
      THEN Again(Activate(s1, DateNow(s1)))
      ELSE Again(s1)

(***************************************************************************)
(* part_007, first script: the same loop as part_000's first script        *)
(***************************************************************************)
Construct_p007A == Base("p007A")

render_p007A(s, f) == render_p000A(s, f)

(***************************************************************************)
(* part_007, second script: WebGazer with eye-box fallback, mouth click    *)
(***************************************************************************)
Construct_p007B == Base("p007B")

\* the gaze listener that stamps every non-null sample with performance.now()
listener_p007B(s, d) ==
  IF d = Undefined THEN s
  ELSE [s EXCEPT !.gaze = [x |-> d[1], y |-> d[2], t |-> PerfNow(s)]]

render_p007B(s, f) ==
  LET tail(u, tx, ty) ==
        LET sx == Lerp(u.smooth[1], tx, Norm(28, 100))
            sy == Lerp(u.smooth[2], ty, Norm(28, 100))
        IN  Again([u EXCEPT !.smooth = <<sx, sy>>, !.cursor = <<sx, sy>>,
                            !.obs.target = <<tx, ty>>])
      cw == R(s.canvas[1])
      ch == R(s.canvas[2])
  IN
  IF f.faces = 0 THEN tail(s, Div(cw, R(2)), Div(ch, R(2)))
  ELSE IF ~Drawable(f) \/ ~HasAll(f, {13, 14, 17, 18}) THEN Throws(s)
  ELSE
  LET mGap == regionGap(f, <<13, 14>>, <<17, 18>>)
      s1 == IF ~s.mouth.ready
            THEN [s EXCEPT !.mouth = Calibrate(s.mouth, mGap, 50)]
            ELSE IF mouthOpen(mGap, s.mouth.baseline, Norm(165, 100))
                    /\ PerfNow(s) - s.lastClick > 850
                 THEN Activate(s, PerfNow(s))
                 ELSE s
  IN
  IF ~HasAll(f, {33, 263, 159, 145, 386, 374}) THEN Throws(s1)
  ELSE
  LET leftOuter == K(f, 33)
      rightOuter == K(f, 263)
      leftUpper == K(f, 159)
      leftLower == K(f, 145)
      rightUpper == K(f, 386)
      rightLower == K(f, 374)
      leftIris == avg(Slice(f, 468, 472))
      rightIris == avg(Slice(f, 473, 477))
      irisX == Div(Add(leftIris[1], rightIris[1]), R(2))
      irisY == Div(Add(leftIris[2], rightIris[2]), R(2))
      eyeCenterX == Div(Add(leftOuter[1], rightOuter[1]), R(2))
      eyeWidth == Max(R(40), Sub(rightOuter[1], leftOuter[1]))
      eyeMidY == Div(Add(Add(leftUpper[2], leftLower[2]),
                         Add(rightUpper[2], rightLower[2])), R(4))
      eyeHeight == Max(R(14), Div(Add(Sub(leftLower[2], leftUpper[2]),
                                      Sub(rightLower[2], rightUpper[2])), R(2)))
      normX == Clamp(R(-1), R(1), Div(Sub(irisX, eyeCenterX), Div(eyeWidth, R(2))))
      normY == Clamp(R(-1), R(1), Div(Sub(irisY, eyeMidY), Div(eyeHeight, R(2))))
      fbX == Clamp(R(0), cw, Sub(Div(cw, R(2)), Mul(Mul(normX, cw), Norm(60, 100))))
      fbY == Clamp(R(0), ch, Sub(Div(ch, R(2)), Mul(Mul(normY, ch), Norm(70, 100))))
      haveWG == PerfNow(s) - s.gaze.t < 350
      wx == Div(s.gaze.x, R(s.inner[1]))
      wy == Div(s.gaze.y, R(s.inner[2]))
  IN  IF haveWG
      THEN tail([s1 EXCEPT !.obs.source = "external"],
                Sub(cw, Mul(wx, cw)), Mul(wy, ch))
      ELSE tail([s1 EXCEPT !.obs.source = "fallback"], fbX, fbY)

(***************************************************************************)
(* part_009: cursor between the upper eyelids (annotations or mesh)        *)
(***************************************************************************)
Construct_p009 == Base("p009")

render_p009(s, f) ==
  IF ~(f.faces > 0 /\ f.mesh) THEN Again(s)
  ELSE IF ~Drawable(f) THEN Throws(s)
  ELSE
  LET place(leftEye, rightEye) ==
        IF leftEye # Undefined /\ rightEye # Undefined
        THEN [s EXCEPT !.cursor = <<Div(Add(leftEye[1], rightEye[1]), R(2)),
                                    Div(Add(leftEye[2], rightEye[2]), R(2))>>]
        ELSE s
      wink(u, eyeDist) ==
        IF Lt(eyeDist, R(2)) /\ DateNow(u) - u.lastClick > 500
        THEN Again(Activate(u, DateNow(u)))
        ELSE Again(u)
      eyes(u) ==
        IF ~f.ann /\ ~HasAll(f, {159, 145}) THEN Throws(u)
        ELSE wink(u, Abs(Sub(IF f.ann THEN annotations(f, "leftEyeUpper0", 0)[2]
                                      ELSE K(f, 159)[2],
                             IF f.ann THEN annotations(f, "leftEyeLower0", 0)[2]
                                      ELSE K(f, 145)[2])))
  IN  eyes(place(IF f.ann THEN annotations(f, "leftEyeUpper0", 3) ELSE K(f, 159),
                 IF f.ann THEN annotations(f, "rightEyeUpper0", 3) ELSE K(f, 386)))

(***************************************************************************)
(* part_011: cursor from both eyes' annotations, fixed blink               *)
(***************************************************************************)
Construct_p011 == Base("p011")

\* the tail of render: the cursor follows the eyes, a closed left eye clicks
track_p011(s, leOuter, leInner, reOuter, reInner, leUpper, leLower, reUpper, reLower) ==
  LET leCenter == <<Div(Add(leOuter[1], leInner[1]), R(2)),
                    Div(Add(leUpper[2], leLower[2]), R(2))>>
      reCenter == <<Div(Add(reOuter[1], reInner[1]), R(2)),
                    Div(Add(reUpper[2], reLower[2]), R(2))>>
      eyeWidth == Div(Add(Abs(Sub(leOuter[1], leInner[1])),
                          Abs(Sub(reOuter[1], reInner[1]))), R(2))
      eyeHeight == Div(Add(Abs(Sub(leUpper[2], leLower[2])),
                           Abs(Sub(reUpper[2], reLower[2]))), R(2))
      aim(eyeCenterX, eyeCenterY, cw, ch) ==
        LET offsetX == Div(Sub(eyeCenterX, Div(Add(leInner[1], reInner[1]), R(2))), eyeWidth)
            offsetY == Div(Sub(eyeCenterY, Div(Add(leUpper[2], reUpper[2]), R(2))), eyeHeight)
            gx == Sub(Div(cw, R(2)), Mul(Mul(offsetX, cw), Norm(12, 10)))
            gy == Add(Div(ch, R(2)), Mul(Mul(offsetY, ch), Norm(12, 10)))
        IN  [s EXCEPT !.cursor = <<Sub(cw, gx), gy>>]
      wink(u, eyeDist) ==
        IF Lt(eyeDist, R(2)) /\ DateNow(u) - u.lastClick > 500
        THEN Again(Activate(u, DateNow(u)))
        ELSE Again(u)
  IN  wink(aim(Div(Add(leCenter[1], reCenter[1]), R(2)),
                Div(Add(leCenter[2], reCenter[2]), R(2)),
                R(s.canvas[1]), R(s.canvas[2])),
           Abs(Sub(leUpper[2], leLower[2])))

render_p011(s, f) ==
  IF f.faces = 0 THEN Again(s)
  ELSE IF ~Drawable(f) THEN Throws(s)
  ELSE IF ~f.ann THEN Again(s)
  ELSE IF ~f.annEye THEN Throws(s)          \* le[0] of undefined
  ELSE track_p011(s, annotations(f, "leftEye", 0), annotations(f, "leftEye", 3),
                  annotations(f, "rightEye", 3), annotations(f, "rightEye", 0),
                  annotations(f, "leftEyeUpper0", 3), annotations(f, "leftEyeLower0", 3),
                  annotations(f, "rightEyeUpper0", 3), annotations(f, "rightEyeLower0", 3))

(***************************************************************************)
(* part_010, first script: WebGazer cursor, blink or mouth, one cooldown   *)
(***************************************************************************)
Construct_p010A ==
  [Base("p010A") EXCEPT !.gaze = [x |-> Undefined, y |-> Undefined, t |-> 0]]

render_p010A(s, f) ==
  LET tail(u) ==
        LET cw == R(u.canvas[1])
            ch == R(u.canvas[2])
            ww == R(u.inner[1])
            wh == R(u.inner[2])
            useGaze == u.gaze.x # Undefined /\ u.gaze.y # Undefined
            gx == Min(Max(u.gaze.x, R(0)), ww)
            gy == Min(Max(u.gaze.y, R(0)), wh)
            targetCanvasX == IF useGaze THEN Mul(Div(gx, ww), cw) ELSE Div(cw, R(2))
            targetCanvasY == IF useGaze THEN Mul(Div(gy, wh), ch) ELSE Div(ch, R(2))
            sx == Lerp(u.smooth[1], targetCanvasX, Norm(25, 100))
            sy == Lerp(u.smooth[2], targetCanvasY, Norm(25, 100))
        IN  Again(Aimed([u EXCEPT !.smooth = <<sx, sy>>,
                                  !.cursor = <<Sub(cw, sx), sy>>],
                        IF useGaze THEN "external" ELSE "none",
                        targetCanvasX, targetCanvasY))
  IN
  IF f.faces = 0 THEN tail(s)
  ELSE IF ~Drawable(f) \/ ~HasAll(f, EyeIdx \cup {13, 14}) THEN Throws(s)
  ELSE
  LET eyeGap == Div(Add(regionGap(f, leftTop, leftBot),
                        regionGap(f, rightTop, rightBot)), R(2))
      mouthGap == Abs(Sub(K(f, 13)[2], K(f, 14)[2]))
      s1 == [s EXCEPT !.blink = Calibrate(s.blink, eyeGap, 60),
                      !.mouth = Calibrate(s.mouth, mouthGap, 60)]
      tnow == DateNow(s1)
      fired1 == s1.blink.ready
                /\ isBlink(eyeGap, s1.blink.baseline, Norm(55, 100))
                /\ tnow - s1.lastClick > 900
      fired2 == ~fired1 /\ s1.mouth.ready
                /\ mouthOpen(mouthGap, s1.mouth.baseline, Norm(18, 10))
                /\ tnow - s1.lastClick > 900
  IN  IF fired1 \/ fired2 THEN tail(Activate(s1, tnow)) ELSE tail(s1)

(***************************************************************************)
(* part_010, second script: part_003's third script plus a calibration     *)
(* offset and a nose push                                                  *)
(***************************************************************************)
Construct_p010B == [Base("p010B") EXCEPT !.smooth = <<R(120), R(120)>>]

CALIBRATION_X == Norm(12, 100)
CALIBRATION_Y == Norm(16, 100)
NOSE_PUSH_FACTOR == Norm(25, 100)

render_p010B(s, f) ==
  LET tail(u, tx, ty) ==
        LET sx == Lerp(u.smooth[1], tx, Norm(25, 100))
            sy == Lerp(u.smooth[2], ty, Norm(25, 100))
        IN  Again([u EXCEPT !.smooth = <<sx, sy>>, !.cursor = <<sx, sy>>,
                            !.obs.target = <<tx, ty>>])
      cw == R(s.canvas[1])
      ch == R(s.canvas[2])
  IN
  IF f.faces = 0 THEN tail(s, Div(cw, R(2)), Div(ch, R(2)))
  ELSE IF ~Drawable(f) THEN Throws(s)
  ELSE
  LET mouthGap == avgGap(f, <<13, 14>>, <<17, 18>>)
      s1 == IF ~s.mouth.ready
            THEN [s EXCEPT !.mouth = Calibrate(s.mouth, mouthGap, 40)]
            ELSE IF mouthOpen(mouthGap, s.mouth.baseline, Norm(17, 10))
                    /\ PerfNow(s) - s.lastClick > 900
                 THEN Activate(s, PerfNow(s))
                 ELSE s
      nose == K(f, 1)
      leftIris == irisOr(f, 468, 159)
      rightIris == irisOr(f, 473, 386)
      usable == nose # Undefined /\ leftIris # Undefined /\ rightIris # Undefined
      irisX == Div(Add(leftIris[1], rightIris[1]), R(2))
      irisY == Div(Add(leftIris[2], rightIris[2]), R(2))
      faceW == Max(R(40), Sub(orNose(f, 454)[1], orNose(f, 234)[1]))
      faceH == Max(R(50), Sub(orNose(f, 152)[2], orNose(f, 10)[2]))
      ndx == Div(Sub(irisX, nose[1]), faceW)
      ndy == Div(Sub(irisY, nose[2]), faceH)
      fbX == IF usable
             THEN Clamp(R(0), cw, Sub(Div(cw, R(2)), Mul(Mul(ndx, cw), Norm(22, 10))))
             ELSE Div(cw, R(2))
      fbY == IF usable
             THEN Add(Clamp(R(0), ch, Add(Div(ch, R(2)), Mul(Mul(ndy, ch), Norm(20, 10)))),
                      Mul(faceH, NOSE_PUSH_FACTOR))
             ELSE Div(ch, R(2))
      webgazerFresh == PerfNow(s) - s.gaze.t < 350
      normX == Div(s.gaze.x, R(s.inner[1]))
      normY == Div(s.gaze.y, R(s.inner[2]))
  IN  IF webgazerFresh
      THEN tail([s1 EXCEPT !.obs.source = "external"],
                Add(Sub(cw, Mul(normX, cw)), Mul(cw, CALIBRATION_X)),
                Add(Mul(normY, ch), Mul(ch, CALIBRATION_Y)))
      ELSE tail([s1 EXCEPT !.obs.source = "fallback"],
                Add(Sub(cw, fbX), Mul(cw, CALIBRATION_X)),
                Add(fbY, Mul(ch, CALIBRATION_Y)))

(***************************************************************************)
(* part_012: WebGazer cursor, calibrated blink                             *)
(***************************************************************************)
Construct_p012 == Base("p012")

render_p012(s, f) ==
  IF f.faces = 0 THEN follow_gaze(s)
  ELSE IF ~Drawable(f) \/ ~HasAll(f, EyeIdx) THEN Throws(s)
  ELSE follow_gaze(blink_700(s, Div(Add(regionGap(f, leftTop, leftBot),
                                        regionGap(f, rightTop, rightBot)), R(2))))

(***************************************************************************)
(* The page: one of the scripts is loaded                                  *)
(***************************************************************************)
Variants ==
  {"scriptA", "scriptB", "p000A", "p000B", "p000C", "p001", "p002", "p003A",
   "p003B", "p003C", "p004", "p005", "p006", "p007A", "p007B", "p008A",
   "p008B", "p009", "p010A", "p010B", "p011", "p012"}

Construct(v) ==
  CASE v = "scriptA" -> Construct_scriptA [] v = "scriptB" -> Construct_scriptB
    [] v = "p000A" -> Construct_p000A [] v = "p000B" -> Construct_p000B
    [] v = "p000C" -> Construct_p000C [] v = "p001" -> Construct_p001
    [] v = "p002" -> Construct_p002 [] v = "p003A" -> Construct_p003A
    [] v = "p003B" -> Construct_p003B [] v = "p003C" -> Construct_p003C
    [] v = "p004" -> Construct_p004 [] v = "p005" -> Construct_p005
    [] v = "p006" -> Construct_p006 [] v = "p007A" -> Construct_p007A
    [] v = "p007B" -> Construct_p007B [] v = "p008A" -> Construct_p008A
    [] v = "p008B" -> Construct_p008B [] v = "p009" -> Construct_p009
    [] v = "p010A" -> Construct_p010A [] v = "p010B" -> Construct_p010B
    [] v = "p011" -> Construct_p011 [] v = "p012" -> Construct_p012

\* the continuation of render after `await estimateFaces` resolved with f
render(s, f) ==
  CASE s.variant = "scriptA" -> render_scriptA(s, f)
    [] s.variant = "scriptB" -> render_scriptB(s, f)
    [] s.variant = "p000A" -> render_p000A(s, f)
    [] s.variant = "p000B" -> render_p000B(s, f)
    [] s.variant = "p000C" -> render_p000C(s, f)
    [] s.variant = "p001" -> render_p001(s, f)
    [] s.variant = "p002" -> render_p002(s, f)
    [] s.variant = "p003A" -> render_p003A(s, f)
    [] s.variant = "p003B" -> render_p003B(s, f)
    [] s.variant = "p003C" -> render_p003C(s, f)
    [] s.variant = "p004" -> render_p004(s, f)
    [] s.variant = "p005" -> render_p005(s, f)
    [] s.variant = "p006" -> render_p006(s, f)
    [] s.variant = "p007A" -> render_p007A(s, f)
    [] s.variant = "p007B" -> render_p007B(s, f)
    [] s.variant = "p008A" -> render_p008A(s, f)
    [] s.variant = "p008B" -> render_p008B(s, f)
    [] s.variant = "p009" -> render_p009(s, f)
    [] s.variant = "p010A" -> render_p010A(s, f)
    [] s.variant = "p010B" -> render_p010B(s, f)
    [] s.variant = "p011" -> render_p011(s, f)
    [] s.variant = "p012" -> render_p012(s, f)

\* the scripts that start WebGazer and install a gaze listener
WebGazerVariants ==
  {"scriptA", "p000B", "p000C", "p003C", "p005", "p007B", "p010A", "p010B", "p012"}

setGazeListener(s, d) ==
  CASE s.variant = "scriptA" -> listener_scriptA(s, d)
    [] s.variant \in {"p003C", "p010B"} -> listener_validated(s, d)
    [] s.variant = "p007B" -> listener_p007B(s, d)
    [] OTHER -> listener_plain(s, d)

\* the window was resized to w; the script's resize handler runs
resize(s, w) ==
  LET u == [s EXCEPT !.inner = w]
  IN  IF s.variant = "p001" THEN resize_p001(u)
      ELSE [u EXCEPT !.canvas = <<VideoW, VideoH>>]

(***************************************************************************)
(* Actions                                                                 *)
(***************************************************************************)
\* the browser runs the queued render: it draws the frame and suspends in
\* `await model.estimateFaces(...)`; dt ms have passed since the last step
Frame(dt) ==
  /\ pc = "scheduled"
  /\ pc' = "awaiting"
  /\ now' = now + dt
  /\ obs' = [obs EXCEPT !.queued = @ - 1, !.suspended = @ + 1]
  /\ UNCHANGED <<variant, lastClick, blink, mouth, mouthOpenFrames, gaze,
                 lastFaceKeypoints, smooth, cursor, canvas, inner, center,
                 flash, scene>>

\* estimateFaces resolves with f and render runs to its end
Settle(f) ==
  /\ pc = "awaiting"
  /\ \E u \in {render(Began(St, f), f)} : Becomes(u)
  /\ UNCHANGED scene

\* WebGazer delivers d (null, or a point in window coordinates)
GazeSample(d) ==
  /\ variant \in WebGazerVariants
  /\ LET u == setGazeListener(St, d)
     IN  Becomes(IF u.gaze # gaze THEN [u EXCEPT !.obs.accepted = now] ELSE u)
  /\ UNCHANGED scene

\* part_005's interval timer fires and its prediction d arrives
Poll(d) ==
  /\ variant = "p005"
  /\ LET u == poll_p005(St, d)
     IN  Becomes(IF u.gaze # gaze THEN [u EXCEPT !.obs.accepted = now] ELSE u)
  /\ UNCHANGED scene

Resize(w) ==
  /\ Becomes(resize(St, w))
  /\ UNCHANGED scene

\* the timer started by an activation restores the cursor colour
FlashTimeout ==
  /\ flash
  /\ flash' = FALSE
  /\ UNCHANGED <<variant, pc, now, lastClick, blink, mouth, mouthOpenFrames,
                 gaze, lastFaceKeypoints, smooth, cursor, canvas, inner,
                 center, obs, scene>>

(***************************************************************************)
(* Camera frames                                                           *)
(***************************************************************************)
\* a face with its nose at the middle of the 640x480 frame, the irises
\* offset by <<ox, oy>> from the nose, and the given eyelid and lip gaps
Geo(ox, oy, eye, mth) ==
  [nose |-> <<R(320), R(240)>>, fw |-> R(160), fh |-> R(200),
   iris |-> <<R(320 + ox), R(240 + oy)>>, eye |-> eye, mouth |-> mth]

Face(g) ==
  [faces |-> 1, mesh |-> TRUE, len |-> 478, holes |-> {}, ann |-> TRUE,
   annEye |-> TRUE, g |-> g, pts |-> [i \in LandmarkIdx |-> Landmark(g, i)],
   notes |-> [p \in AnnotationKeys |-> Annotation(g, p[1], p[2])]]

NoFace ==
  [faces |-> 0, mesh |-> FALSE, len |-> 0, holes |-> {}, ann |-> FALSE,
   annEye |-> FALSE, g |-> Geo(0, 0, R(10), R(10)), pts |-> <<>>, notes |-> <<>>]

Neutral == Face(Geo(0, 0, R(10), R(10)))

\* a face looking dead-centre: nose and irises at (100, 100), 200 px wide
Centred ==
  Face([Geo(0, 0, R(10), R(10)) EXCEPT !.nose = <<R(100), R(100)>>,
                                       !.iris = <<R(100), R(100)>>,
                                       !.fw = R(200)])

\* a face looking aside: the irises 80 px right of and 40 px below the nose
Shifted == Face(Geo(80, 40, R(10), R(10)))

\* what the landmark model can answer beyond a full mesh: no scaledMesh, a
\* short mesh, a mesh without the iris landmarks, a mesh with an undefined
\* entry, missing annotations
Degenerate ==
  {[Neutral EXCEPT !.mesh = FALSE, !.len = 0],
   [Neutral EXCEPT !.len = 200],
   [Neutral EXCEPT !.len = 468],
   [Neutral EXCEPT !.holes = {159}],
   [Neutral EXCEPT !.ann = FALSE, !.annEye = FALSE],
   [Neutral EXCEPT !.annEye = FALSE]}

(***************************************************************************)
(* Spec: a page from its construction, under every kind of event           *)
(***************************************************************************)
MaxTicks == 2
MaxTime == 800

Dts == {100, 400}

Frames ==
  {NoFace, Neutral, Face(Geo(80, 40, R(10), R(10))), Face(Geo(0, 0, R(1), R(10))),
   Face(Geo(0, 0, R(0), R(10))), Centred}
  \cup Degenerate

GazeData == {Undefined, <<R(400), R(300)>>, <<R(-50), R(700)>>}

Windows == {<<InnerW, InnerH>>, <<320, 240>>}

Init ==
  /\ scene = "free"
  /\ \E v \in Variants : Is(Construct(v))

Next ==
  \/ \E dt \in Dts : obs.ticks < MaxTicks /\ now + dt <= MaxTime /\ Frame(dt)
  \/ \E f \in Frames : Settle(f)
  \/ \E d \in GazeData : GazeSample(d)
  \/ \E d \in GazeData : Poll(d)
  \/ \E w \in Windows : Resize(w)
  \/ FlashTimeout

Spec == Init /\ [][Next]_vars

(***************************************************************************)
(* SpecCalib: a page from its construction at a steady frame rate, the     *)
(* user at rest until a gesture that is then held                          *)
(***************************************************************************)
FrameMs == 100
CalibTicks == 63

Gestures == {"blink", "mouth"}

SceneFrame(sc) ==
  CASE sc = "blink" -> Face(Geo(0, 0, R(3), R(10)))
    [] sc = "mouth" -> Face(Geo(0, 0, R(10), R(30)))
    [] OTHER -> Neutral

\* the user starts gesture g between two frames
Gesture(g) ==
  /\ scene = "rest"
  /\ pc = "scheduled"
  /\ scene' = g
  /\ UNCHANGED <<variant, pc, now, lastClick, blink, mouth, mouthOpenFrames,
                 gaze, lastFaceKeypoints, smooth, cursor, canvas, inner,
                 center, flash, obs>>

InitCalib ==
  /\ scene = "rest"
  /\ \E v \in Variants : Is(Construct(v))

NextCalib ==
  \/ obs.ticks < CalibTicks /\ Frame(FrameMs)
  \/ Settle(SceneFrame(scene))
  \/ \E g \in Gestures : Gesture(g)
  \/ FlashTimeout

SpecCalib == InitCalib /\ [][NextCalib]_vars

(***************************************************************************)
(* SpecActive: a page that has seen WarmTicks frames of the user at rest   *)
(* (every calibrator is ready), then any frames at any pace                *)
(***************************************************************************)
WarmTicks == 61
ActiveTicks == 3

\* one whole tick: dt ms pass, the frame is f
Tick(s, dt, f) ==
  LET u == [s EXCEPT !.now = @ + dt, !.pc = "awaiting",
                     !.obs.queued = @ - 1, !.obs.suspended = @ + 1]
  IN  render(Began(u, f), f)

\* n ticks of the user at rest, one after another (the first half, then the
\* second)
RECURSIVE Run(_, _)
Run(s, n) ==
  IF n = 0 \/ s.pc = "stopped" THEN s
  ELSE IF n = 1 THEN Tick(s, FrameMs, Neutral)
  ELSE LET h == n \div 2
           m == Run(s, h)
       IN  IF m.pc = "stopped" THEN m ELSE Run(m, n - h)

Warm(v) == Run(Construct(v), WarmTicks)

ActiveDts == {250, 350}

\* calibration thresholds and classifier factors of the variants that
\* calibrate (0 where the variant has no such calibrator)
BlinkN(v) ==
  CASE v \in {"scriptB", "p003A"} -> 45
    [] v \in {"p000B", "p005"} -> 50
    [] v \in {"p006", "p008A", "p010A", "p012"} -> 60
    [] OTHER -> 0

BlinkFactor(v) ==
  CASE v \in {"scriptB", "p003A", "p010A"} -> Norm(55, 100)
    [] OTHER -> Norm(65, 100)

MouthN(v) ==
  CASE v \in {"p001", "p003C", "p010B"} -> 40
    [] v \in {"scriptA", "p000B", "p005", "p007B"} -> 50
    [] v = "p010A" -> 60
    [] OTHER -> 0

MouthFactor(v) ==
  CASE v = "p000B" -> Norm(16, 10)
    [] v \in {"scriptA", "p007B"} -> Norm(165, 100)
    [] v = "p010A" -> Norm(18, 10)
    [] v = "p005" -> Norm(19, 10)
    [] OTHER -> Norm(17, 10)

\* minimum separation D of two activations
Cooldown(v) ==
  CASE v \in {"scriptA", "p001", "p003C", "p010A", "p010B"} -> 900
    [] v = "p007B" -> 850
    [] v \in {"scriptB", "p003A"} -> 750
    [] v \in {"p005", "p006", "p008A", "p008B", "p012"} -> 700
    [] OTHER -> 500

\* the frames offered to a calibrated page: no face, rest, a shut eye, a
\* wide mouth, and the signals that sit exactly on the page's thresholds
ActiveFrames ==
  {NoFace, Neutral, Face(Geo(0, 0, R(1), R(10))), Face(Geo(0, 0, R(10), R(30)))}
  \cup (IF blink.ready
        THEN {Face(Geo(0, 0, Mul(blink.baseline, BlinkFactor(variant)), R(10)))}
        ELSE {})
  \cup (IF mouth.ready
        THEN {Face(Geo(0, 0, R(10), Mul(mouth.baseline, MouthFactor(variant))))}
        ELSE {})

InitActive ==
  /\ scene = "free"
  /\ \E v \in Variants : Is(Warm(v))

NextActive ==
  \/ \E dt \in ActiveDts : obs.ticks < WarmTicks + ActiveTicks /\ Frame(dt)
  \/ \E f \in ActiveFrames : Settle(f)
  \/ FlashTimeout

SpecActive == InitActive /\ [][NextActive]_vars

(***************************************************************************)
(* SpecShared: a calibrated page of one of the scripts whose blink and     *)
(* mouth classifiers share one timestamp, shown frames without a face and  *)
(* frames in which neither, either or both gestures are made               *)
(***************************************************************************)
SharedTicks == 4

SharedStamp == {"p000B", "p005", "p010A"}

Both == Face(Geo(0, 0, R(1), R(30)))

SharedFrames ==
  {NoFace, Neutral, Face(Geo(0, 0, R(1), R(10))), Face(Geo(0, 0, R(10), R(30))), Both}

InitShared ==
  /\ scene = "free"
  /\ \E v \in SharedStamp : Is(Warm(v))

NextShared ==
  \/ \E dt \in ActiveDts : obs.ticks < WarmTicks + SharedTicks /\ Frame(dt)
  \/ \E f \in SharedFrames : Settle(f)
  \/ FlashTimeout

SpecShared == InitShared /\ [][NextShared]_vars

(***************************************************************************)
(* SpecCentre: an auto-centre page from its construction at a steady frame *)
(* rate.  The user looks aside and at some moment looks straight ahead for *)
(* good; on any tick the face may go undetected.                           *)
(***************************************************************************)
CentreTicks == 33

AutoCentre == {"scriptB", "p003A"}

\* the state u a tick on frame f has led to, with the tick counted
Counted(u, f) ==
  IF f.faces = 0 THEN u
  ELSE [u EXCEPT !.obs.seen = @ + 1,
                 !.obs.aside = IF obs.seen < 30 /\ f.g.iris # f.g.nose
                               THEN @ + 1 ELSE @]

CentreFrame == obs.ticks < CentreTicks /\ Frame(FrameMs)

CentreSettle ==
  \E f \in {NoFace, IF scene = "aside" THEN Shifted ELSE Neutral} :
    /\ pc = "awaiting"
    /\ \E u \in {render(Began(St, f), f)} : Becomes(Counted(u, f))
    /\ UNCHANGED scene

Straighten ==
  /\ scene = "aside"
  /\ pc = "scheduled"
  /\ scene' = "rest"
  /\ UNCHANGED <<variant, pc, now, lastClick, blink, mouth, mouthOpenFrames,
                 gaze, lastFaceKeypoints, smooth, cursor, canvas, inner,
                 center, flash, obs>>

InitCentre ==
  /\ scene = "aside"
  /\ \E v \in AutoCentre : Is(Construct(v))

NextCentre == CentreFrame \/ CentreSettle \/ Straighten

SpecCentre == InitCentre /\ [][NextCentre]_vars

(***************************************************************************)
(* SpecGap: a page of one of the scripts that measure the mouth with the   *)
(* guarded avgGap, from its construction, shown meshes of 17, 18 and 478   *)
(* landmarks: the lower-lip landmarks 17 and 18 are both missing, only 18  *)
(* is missing, or none is                                                  *)
(***************************************************************************)
GapTicks == 2

Guarded == {"p001", "p003C", "p010B"}

GapMeshes ==
  {[Face(Geo(0, 0, R(10), m)) EXCEPT !.len = n] :
     n \in {17, 18, 478}, m \in {R(10), R(30)}}

InitGap ==
  /\ scene = "free"
  /\ \E v \in Guarded : Is(Construct(v))

NextGap ==
  \/ obs.ticks < GapTicks /\ Frame(FrameMs)
  \/ \E f \in GapMeshes : Settle(f)

SpecGap == InitGap /\ [][NextGap]_vars

(***************************************************************************)
(* SpecHold: a calibrated page on which the user holds one gesture: every  *)
(* frame from the warm-up on shows the closed eye or the open mouth.  The  *)
(* browser goes on running the queued render, so that step is weakly fair, *)
(* and estimateFaces goes on resolving, so a tick is never suspended for   *)
(* ever (the step that ends it is enabled exactly while pc = "awaiting").  *)
(***************************************************************************)
HoldTicks == 40

\* the classifier of gesture g exists in script v
Classifies(v, g) == IF g = "blink" THEN BlinkN(v) > 0 ELSE MouthN(v) > 0

HoldFrame == obs.ticks < WarmTicks + HoldTicks /\ Frame(FrameMs)

HoldSettle == Settle(SceneFrame(scene))

InitHold ==
  \E v \in Variants, g \in Gestures :
    /\ Classifies(v, g)
    /\ scene = g
    /\ Is(Warm(v))

NextHold == HoldFrame \/ HoldSettle \/ FlashTimeout

SpecHold ==
  InitHold /\ [][NextHold]_vars /\ WF_vars(HoldFrame) /\ []<>(pc # "awaiting")

(***************************************************************************)
(* Properties                                                              *)
(***************************************************************************)

\* C1: two consecutive activations are separated by strictly more than the
\* variant's debounce interval D: whenever a tick activates and an earlier
\* activation exists, the time since that activation exceeds D.
C1_DebounceStrict ==
  obs.fired /\ obs.gap >= 0 => obs.gap > Cooldown(variant)

\* the mean of the first n entries of q
MeanOfFirst(q, n) == Div(SumSeq(SubSeq(q, 1, n)), R(n))

\* C2: a frozen baseline is the arithmetic mean of exactly the first N
\* samples ingested, N being the constant the sample count is compared with.
C2_MeanOfFirstN ==
  /\ blink.ready =>
       blink.baseline = MeanOfFirst(blink.samples, BlinkN(variant))
  /\ mouth.ready =>
       mouth.baseline = MeanOfFirst(mouth.samples, MouthN(variant))

Blink60 == {"p006", "p008A", "p012"}

\* C4: in the blink scripts with N = 60 and factor 0.65, after 60 frames
\* with eyeGap 10 the baseline is exactly 10, and a 61st frame with eyeGap 3
\* activates.
C4_SixtyThenBlink ==
  variant \in Blink60 /\ pc = "scheduled" =>
    /\ obs.ticks = 60 /\ scene = "rest" =>
         blink.ready /\ blink.baseline = R(10)
    /\ /\ obs.ticks = 61 /\ obs.eye = R(3)
       /\ Len(blink.samples) >= 60
       /\ \A i \in 1..60 : blink.samples[i] = R(10)
       => obs.fired

\* C5: every render tick, whatever the landmark result, ends with the next
\* render scheduled: the loop never stops.
C5_LoopNeverStops == pc # "stopped"

\* the scripts that choose between WebGazer and a landmark fallback by the
\* age of the last gaze sample, and their staleness windows
FallbackVariants == {"scriptA", "p003C", "p007B", "p010B"}

GazeWindow(v) == IF v = "scriptA" THEN 400 ELSE 350

\* C6: on a face tick of a WebGazer-plus-fallback script the external gaze
\* point is the target exactly when the last accepted sample is younger than
\* the window; otherwise the fallback is.
C6_FreshnessChoice ==
  variant \in FallbackVariants /\ obs.face /\ obs.source # "none" =>
    (obs.source = "external"
       <=> obs.age >= 0 /\ obs.age < GazeWindow(variant))

\* the scripts whose cursor moves in window coordinates; the others move it
\* in canvas coordinates
ViewportVariants == {"p000B", "p000C", "p005", "p012"}

DisplayBox == IF variant \in ViewportVariants THEN inner ELSE canvas

\* the point p is a pair of numbers inside [0, b[1]] x [0, b[2]]
InBox(p, b) ==
  /\ p # Undefined /\ p[1] # Undefined /\ p[2] # Undefined
  /\ Ge(p[1], R(0)) /\ Le(p[1], R(b[1]))
  /\ Ge(p[2], R(0)) /\ Le(p[2], R(b[2]))

\* C7: on every face tick the target given to the smoothing filter lies
\* within [0, width] x [0, height] of the display the script targets.
C7_TargetInBounds ==
  [][pc = "awaiting" /\ pc' # "awaiting" /\ obs'.face
       /\ obs'.target # Undefined
     => InBox(obs'.target, DisplayBox')]_vars

\* C8: every position written to the cursor lies within [0, width] x
\* [0, height] of the display the script targets.
C8_CursorInBounds ==
  [][cursor' # cursor => InBox(cursor', DisplayBox')]_vars

\* C9: a tick without a face does not activate and leaves the activation
\* timestamp, both calibrators (baseline, samples, ready) and the
\* open-mouth frame counter as they were.
C9_NoFaceTick ==
  [][pc = "awaiting" /\ pc' # "awaiting" /\ ~obs'.face
     => /\ ~obs'.fired
        /\ lastClick' = lastClick
        /\ blink' = blink /\ mouth' = mouth
        /\ mouthOpenFrames' = mouthOpenFrames]_vars

\* part_005 has counted an open mouth and then seen a frame without a face
C9_Witness ==
  /\ variant = "p005" /\ mouthOpenFrames >= 1
  /\ obs.ticks > WarmTicks /\ ~obs.face /\ pc = "scheduled"

BlinkThreshold == Mul(blink.baseline, BlinkFactor(variant))

MouthThreshold == Mul(mouth.baseline, MouthFactor(variant))

\* C10: with the baseline frozen, a tick whose signal equals baseline *
\* factor exactly (and whose other signal is at rest) does not activate,
\* for the blink and for the mouth classifier.
C10_BoundaryDoesNotFire ==
  /\ /\ obs.face /\ blink.ready /\ obs.eye = BlinkThreshold
     /\ mouth.ready => Le(obs.mouth, MouthThreshold)
     => ~obs.fired
  /\ /\ obs.face /\ mouth.ready /\ obs.mouth = MouthThreshold
     /\ blink.ready => Ge(obs.eye, BlinkThreshold)
     => ~obs.fired

\* a tick saw the eyelid gap exactly on the blink threshold, no activation
\* had happened before it, and it did not activate
C10_Witness ==
  /\ obs.face /\ blink.ready /\ obs.eye = BlinkThreshold
  /\ obs.ticks > WarmTicks /\ pc = "scheduled"
  /\ obs.lastFire < 0 /\ ~obs.fired


\* C11: a calibrated classifier starts calibrating (its calibrator is not
\* ready), is active from the moment the calibrator is ready, never goes back
\* to calibrating, and a tick activates only on a gesture whose classifier is
\* active: with one classifier its calibrator is ready, with two the gesture
\* that is beyond its threshold has a ready calibrator
CalibratedVariants == {v \in Variants : BlinkN(v) > 0 \/ MouthN(v) > 0}

FiredByActive ==
  CASE BlinkN(variant) > 0 /\ MouthN(variant) > 0 ->
         \/ blink.ready /\ isBlink(obs.eye, blink.baseline, BlinkFactor(variant))
         \/ mouth.ready /\ mouthOpen(obs.mouth, mouth.baseline, MouthFactor(variant))
    [] BlinkN(variant) > 0 /\ MouthN(variant) = 0 -> blink.ready
    [] BlinkN(variant) = 0 /\ MouthN(variant) > 0 -> mouth.ready
    [] OTHER -> TRUE

C11_OneWayClassifier ==
  /\ ~blink.ready /\ ~mouth.ready
  /\ [][(blink.ready => blink'.ready) /\ (mouth.ready => mouth'.ready)]_vars
  /\ [](obs.fired => FiredByActive)

C11_Witness ==
  /\ variant = "p006" /\ blink.ready /\ obs.fired /\ obs.ticks = 62
  /\ Len(blink.samples) = 61


\* C12: at most one render tick is in flight: never more than one render
\* callback is queued or suspended, a callback is queued only when no
\* invocation is suspended, and the callbacks that run while a tick is
\* suspended (gaze listener, polling timer, flash timeout, resize) neither
\* start nor finish a tick
C12_OneTickInFlight ==
  /\ [](/\ obs.queued + obs.suspended <= 1
        /\ (pc = "scheduled" <=> obs.queued = 1)
        /\ (pc = "awaiting" <=> obs.suspended = 1))
  /\ [][pc = "awaiting" /\ pc' = "awaiting"
        => /\ obs'.ticks = obs.ticks /\ obs'.queued = 0 /\ obs'.suspended = 1
           /\ blink' = blink /\ mouth' = mouth /\ lastClick' = lastClick
           /\ smooth' = smooth]_vars

\* a gaze sample arrived while the second tick was suspended
C12_Witness ==
  /\ variant = "p005" /\ pc = "awaiting" /\ obs.ticks = 1 /\ obs.accepted = now
  /\ obs.suspended = 1


\* C13: the gaze mappers divide by clamped denominators only, so on a frame
\* that has every landmark and annotation, whatever its geometry, the cursor
\* coordinates the tick writes and the target it gives the smoother are finite
FinitePoint(p) ==
  p = Undefined \/ \A i \in 1..2 : p[i] = Undefined \/ (IsNum(p[i]) /\ Finite(p[i]))

C13_FiniteOnWholeFrames ==
  obs.face /\ obs.whole /\ pc = "scheduled"
  => FinitePoint(cursor) /\ FinitePoint(obs.target)


\* C14: on a frame whose mesh ends before the iris landmarks (468 landmarks,
\* everything else present) the tick does not throw and the target it gives
\* the smoother is finite (or it gives none)
C14_IrislessDegrades ==
  obs.irisless => pc # "stopped" /\ FinitePoint(obs.target)


\* C15: a bad frame spoils its own tick only: a tick on a frame that has every
\* landmark and annotation leaves the smoothed position finite and gives the
\* smoother a finite target, whatever the frames before it were
C15_BadFrameOneTick ==
  obs.face /\ obs.whole /\ pc = "scheduled"
  => FinitePoint(smooth) /\ FinitePoint(obs.target)


\* C16: the landmark path mirrors once: when the irises sit to the right of
\* the nose in the camera image, the x the tick displays is not to the right
\* of the x the same tick would have displayed for centred irises (one
\* inversion or one reflection lowers x; both together raise it)
Shown(x) == x # Undefined /\ IsNum(x) /\ Finite(x)

C16_MirroredOnce ==
  [][pc = "awaiting" /\ Becomes(render(Began(St, Shifted), Shifted))
     => LET c == render(Began(St, Neutral), Neutral).cursor[1]
        IN  Shown(cursor'[1]) /\ Shown(c) => Le(cursor'[1], c)]_vars


\* C17: in the scripts that normalise the iris offset by the face size, a
\* face looking dead-centre (nose and iris clusters at (100, 100), face width
\* 200), with no accumulated centre offset and no fresh external gaze, is
\* mapped to the centre of the canvas exactly
FaceNormalized == {"scriptA", "scriptB", "p001", "p003A", "p003C", "p010B"}

C17_CentreIsCentre ==
  [][/\ variant \in FaceNormalized
     /\ pc = "awaiting" /\ Becomes(render(Began(St, Centred), Centred))
     /\ obs'.source = "fallback" /\ center.dx = R(0) /\ center.dy = R(0)
     => obs'.target = <<Div(R(canvas'[1]), R(2)), Div(R(canvas'[2]), R(2))>>]_vars


\* C18: while the gesture is held on an active classifier at a fixed tick
\* period, two activations are never closer than the debounce interval, and
\* from any tick that did not activate an activation follows: a first one,
\* and after every activation a further one (as long as the run leaves room
\* for the debounce interval to elapse)
HoldMargin == 13

C18_HeldGestureRepeats ==
  /\ [](obs.fired /\ obs.gap >= 0 => obs.gap >= Cooldown(variant))
  /\ (~obs.fired /\ obs.ticks <= WarmTicks + HoldTicks - HoldMargin) ~> obs.fired

\* a third activation of the held mouth gesture in part_005
C18_Witness ==
  /\ variant = "p005" /\ scene = "mouth" /\ obs.fired /\ obs.gap >= 700
  /\ obs.ticks >= WarmTicks + 21


\* C19: while the target stays the same from one tick to the next, a tick's
\* smoothing (one update or two) leaves the smoothed position on each axis no
\* farther from the target than it was and on the same side of it; and after
\* the CalibTicks ticks of a user at rest the smoothed position is within
\* Epsilon of the target
Epsilon == Norm(1, 10)

Closer(c, d, t) ==
  /\ Le(Abs(Sub(t, d)), Abs(Sub(t, c)))
  /\ (Le(c, t) => Le(d, t))
  /\ (Ge(c, t) => Ge(d, t))

C19_SmoothingConverges ==
  /\ [][/\ pc = "awaiting" /\ pc' = "scheduled"
        /\ obs'.target # Undefined /\ obs'.target = obs.target
        /\ FinitePoint(obs'.target) /\ FinitePoint(smooth)
        => \A i \in 1..2 : Closer(smooth[i], smooth'[i], obs'.target[i])]_vars
  /\ [](/\ obs.ticks = CalibTicks /\ scene = "rest" /\ pc = "scheduled"
        /\ obs.target # Undefined
        => \A i \in 1..2 : Le(Abs(Sub(obs.target[i], smooth[i])), Epsilon))

\* the script that smooths twice in a tick, at rest, has closed in on the
\* centre of the canvas from the corner
C19_Witness ==
  /\ variant = "scriptA" /\ obs.ticks = CalibTicks /\ scene = "rest"
  /\ obs.target = <<R(320), R(240)>> /\ obs.source = "fallback"
  /\ smooth # <<R(320), R(240)>>
  /\ Le(Abs(Sub(R(320), smooth[1])), Epsilon)


\* C20: a tick that finds no face leaves a cursor that has been placed where
\* it was or moves it, on each axis, no farther from the centre of the canvas
\* and not past it
Placed(c) == c # Undefined /\ \A i \in 1..2 : Shown(c[i])

C20_NoFaceHoldsOrCentres ==
  [][/\ pc = "awaiting" /\ pc' = "scheduled" /\ ~obs'.face /\ Placed(cursor)
     => \/ cursor' = cursor
        \/ /\ Placed(cursor')
           /\ \A i \in 1..2 :
                Closer(cursor[i], cursor'[i], Div(R(canvas'[i]), R(2)))]_vars


\* C21: in part_005 a tick that stores or keeps a face mesh and begins before
\* any gaze sample was taken, or more than one poll period after the last one
\* was taken, aims the cursor with the fallback gaze of the stored mesh
PollMs == 120

C21_FallbackWhenSilent ==
  [][/\ variant = "p005" /\ pc = "awaiting" /\ pc' = "scheduled"
     /\ lastFaceKeypoints' # Undefined
     /\ (obs'.age < 0 \/ obs'.age > PollMs)
     => obs'.source = "fallback"]_vars


\* C22: in the scripts with one timestamp for both gestures a tick makes at
\* most one activation, also when the eye is shut and the mouth is wide in
\* the same frame; the timestamp changes only on a tick that activates, to
\* that tick's time; and two activations, of either gesture, are at least
\* the cooldown apart
C22_OneActivationPerTick ==
  /\ [](obs.fires <= 1 /\ (obs.fired <=> obs.fires = 1))
  /\ [](obs.fired /\ obs.gap >= 0 => obs.gap >= Cooldown(variant))
  /\ [][lastClick' # lastClick
        => obs'.fires = 1 /\ lastClick' = TimeOrigin + now']_vars

\* part_000's second script has been shown a mouth and then, the cooldown
\* later, a shut eye with a wide mouth, and has answered each with one
\* activation
C22_Witness ==
  /\ variant = "p000B" /\ obs.eye = R(1) /\ obs.mouth = R(30)
  /\ obs.fires = 1 /\ obs.gap = 500 /\ lastClick = TimeOrigin + now


\* C23: in part_005 the mouth block calls doClickFeedback only on a tick
\* that is the third face-bearing tick in a row with the lips farther apart
\* than 1.9 times the baseline; a face-bearing tick with the lips closer
\* than that, and every tick that makes the call, whether or not the
\* cooldown lets it through, leaves mouthOpenFrames at 0; and between ticks
\* mouthOpenFrames is 0, 1 or 2
C23_ThreeOpenFrames ==
  variant = "p005" =>
    /\ mouthOpenFrames \in 0..2
    /\ (obs.mouthCall => obs.face /\ obs.run = 3 /\ mouthOpenFrames = 0)
    /\ (/\ pc = "scheduled" /\ obs.face /\ mouth.ready
        /\ obs.ticks > WarmTicks /\ ~Gt(obs.mouth, MouthThreshold)
        => mouthOpenFrames = 0)

\* the third open frame came inside the cooldown of a blink: the call was
\* made, nothing was activated and the counter is back at 0
C23_Witness ==
  /\ variant = "p005" /\ obs.mouthCall /\ ~obs.fired /\ obs.run = 3
  /\ mouthOpenFrames = 0 /\ obs.mouth = R(30)


\* C24: in the auto-centre scripts centerFrames is the number of face-bearing
\* ticks so far, up to 30; centerDX and centerDY are the sums of the offsets
\* of the first 30 face frames; once centerFrames is 30 the three no longer
\* change; and the target of a later tick is the canvas centre displaced by
\* the tick's offset less the mean of those 30 offsets (the tick's frame is
\* known where the user still looks aside, or stopped doing so before the
\* 30th face frame)
AsideDX == Div(Sub(Shifted.g.iris[1], Shifted.g.nose[1]), Shifted.g.fw)

AsideDY == Div(Sub(Shifted.g.iris[2], Shifted.g.nose[2]), Shifted.g.fh)

HGain == IF variant = "scriptB" THEN Norm(18, 10) ELSE Norm(15, 10)

VGain == IF variant = "scriptB" THEN Norm(16, 10) ELSE Norm(15, 10)

C24_CentreOfFirstThirty ==
  /\ [](/\ center.frames = IMin(obs.seen, 30)
        /\ center.dx = Mul(R(obs.aside), AsideDX)
        /\ center.dy = Mul(R(obs.aside), AsideDY))
  /\ [][center.frames = 30 => center' = center]_vars
  /\ [](obs.seen > 30 /\ obs.face /\ pc = "scheduled"
         /\ (scene = "aside" \/ obs.aside < 30) =>
          LET dx == Sub(IF scene = "aside" THEN AsideDX ELSE R(0),
                        Div(Mul(R(obs.aside), AsideDX), R(30)))
              dy == Sub(IF scene = "aside" THEN AsideDY ELSE R(0),
                        Div(Mul(R(obs.aside), AsideDY), R(30)))
              cw == R(canvas[1])
              ch == R(canvas[2])
          IN  obs.target =
                <<Clamp(R(0), cw, Sub(Div(cw, R(2)), Mul(Mul(dx, cw), HGain))),
                  Clamp(R(0), ch, Add(Div(ch, R(2)), Mul(Mul(dy, ch), VGain)))>>)

\* the user looked aside for three frames, the face was lost once, and the
\* 32nd face frame has been handled with the centre of the first 30
C24_Witness ==
  /\ variant = "scriptB" /\ obs.ticks = 33 /\ obs.seen = 32 /\ obs.aside = 3
  /\ obs.face /\ scene = "rest" /\ center.frames = 30
  /\ center.dx = Norm(3, 2) /\ obs.target[1] = Norm(3776, 10)


\* C25: in the scripts whose listener validates, gazeX, gazeY and
\* lastGazeTime change only together, to a point inside the viewport and the
\* time of the change, so a null or outside sample changes none of them; and
\* a face tick that begins 350 ms or more after lastGazeTime takes the
\* fallback
Validating == {"p003C", "p010B"}

C25_MalformedIgnored ==
  /\ [][gaze' # gaze /\ variant \in Validating
        => /\ Ge(gaze'.x, R(0)) /\ Le(gaze'.x, R(inner[1]))
           /\ Ge(gaze'.y, R(0)) /\ Le(gaze'.y, R(inner[2]))
           /\ gaze'.t = now
           /\ now' = now]_vars
  /\ [][/\ variant \in Validating /\ pc = "awaiting" /\ pc' = "scheduled"
        /\ obs'.face /\ obs'.source # "none" /\ now - gaze.t >= 350
        => obs'.source = "fallback"]_vars

\* a sample was accepted after the first tick, only null or outside samples
\* (if any) followed, and the next tick, 400 ms later, took the fallback
C25_Witness ==
  /\ variant = "p003C" /\ gaze = [x |-> R(400), y |-> R(300), t |-> 100]
  /\ obs.ticks = 2 /\ now = 500 /\ obs.source = "fallback" /\ obs.age = 400


\* C26: a tick that moves the smoothed position toward a finite target moves
\* it, on both axes, by one update smooth += (target - smooth) * alpha with
\* one of the scripts' smoothing factors
Alphas == {Norm(15, 100), Norm(20, 100), Norm(25, 100), Norm(28, 100)}

C26_OneSmoothingStep ==
  [][/\ pc = "awaiting" /\ pc' = "scheduled" /\ smooth' # smooth
     /\ obs'.target # Undefined /\ FinitePoint(obs'.target)
     /\ FinitePoint(smooth)
     => \E a \in Alphas :
          \A i \in 1..2 : smooth'[i] = Lerp(smooth[i], obs'.target[i], a)]_vars


\* C27: a tick that adds its sample to the blink or the mouth baseline makes
\* no activation
C27_NoFireOnCalibrationTick ==
  [][/\ pc = "awaiting" /\ pc' = "scheduled"
     /\ (blink'.samples # blink.samples \/ mouth'.samples # mouth.samples)
     => ~obs'.fired]_vars


\* C28: in the scripts that choose by the age of lastGazeTime, a tick that
\* begins before the listener has accepted any sample does not take the
\* external gaze
C28_NoExternalBeforeFirstSample ==
  [][/\ variant \in FallbackVariants /\ pc = "awaiting" /\ pc' = "scheduled"
     /\ obs.accepted < 0
     => obs'.source # "external"]_vars


\* C29: in the scripts whose listener validates, a tick that takes the
\* external gaze divides gazeX and gazeY by the window's width and height
\* into numbers from 0 to 1
Unit(x) == Le(R(0), x) /\ Le(x, R(1))

C29_NormalizedInUnitSquare ==
  [][/\ variant \in Validating /\ pc = "awaiting" /\ pc' = "scheduled"
     /\ obs'.source = "external"
     => /\ Unit(Div(gaze.x, R(inner[1])))
        /\ Unit(Div(gaze.y, R(inner[2])))]_vars


\* C30: the sample a tick of a guarded-avgGap script adds to the mouth
\* baseline is the mean of |top.y - bottom.y| over the index pairs whose two
\* landmarks the mesh has, whenever it has such a pair
PresentPairs(f, top, bot) ==
  {i \in 1..IMin(Len(top), Len(bot)) : Has(f, top[i]) /\ Has(f, bot[i])}

RECURSIVE SumOver(_, _, _, _)
SumOver(f, top, bot, P) ==
  IF P = {} THEN R(0)
  ELSE LET i == CHOOSE j \in P : TRUE
       IN  Add(Abs(Sub(K(f, top[i])[2], K(f, bot[i])[2])),
               SumOver(f, top, bot, P \ {i}))

PresentMean(f, top, bot) ==
  Div(SumOver(f, top, bot, PresentPairs(f, top, bot)),
      R(Cardinality(PresentPairs(f, top, bot))))

C30_MeanOverPresentPairs ==
  [][\A f \in GapMeshes :
       /\ pc = "awaiting" /\ Becomes(render(Began(St, f), f))
       /\ Len(mouth'.samples) > Len(mouth.samples)
       /\ PresentPairs(f, <<13, 14>>, <<17, 18>>) # {}
       => mouth'.samples[Len(mouth'.samples)]
            = PresentMean(f, <<13, 14>>, <<17, 18>>)]_vars

====
